---------------------------- MODULE Spec2Model ----------------------------
(***************************************************************************)
(* Collection pipeline of the JRE transcript collector:                    *)
(*   JRETranscriptFetcher  (data_collection/youtube_transcript_fetcher.py) *)
(*   DatabaseManager       (database/db_manager.py)                        *)
(*   CollectionMonitor     (data_collection/collection_monitor.py)         *)
(*                                                                         *)
(* Scores are kept in tenths (0.2 is 2, 0.3 is 3, 1.0 is 10): every value  *)
(* the code's float accumulation can produce is min(1.0, 0.2*M), and the   *)
(* float result is the same whatever the order of the additions.           *)
(***************************************************************************)
EXTENDS Integers, Sequences, FiniteSets, TLC

VARIABLES
    videos,     \* table videos: rows in insertion order
    segments,   \* table transcript_segments: rows in insertion order
    guests,     \* table guests: the names
    blob,       \* logs/collection_stats.json
    today,      \* the current day
    runs,       \* fetchers constructed so far
    found_total, \* relevant videos the searches have found so far
    faults,     \* failures of the platform and of the store so far
    stats,      \* stats[p]: CollectionMonitor.stats of process p
    w,          \* w[p]: where process p is, and its locals
    h,          \* h[p]: what the current process_video call has done so far
    sc          \* the pure function under evaluation: its input, its result so far

pipelineVars ==
    <<videos, segments, guests, blob, today, runs, found_total, faults, stats, w, h>>

vars ==
    <<videos, segments, guests, blob, today, runs, found_total, faults, stats, w, h,
      sc>>

--------------------------------------------------------------------------
(* Text helpers: Python str.lower() and the `in` substring test.           *)

UpperLetters == "ABCDEFGHIJKLMNOPQRSTUVWXYZ"

LowerLetters == "abcdefghijklmnopqrstuvwxyz"

LowerChar(c) ==
    IF \E i \in 1..Len(UpperLetters) : SubSeq(UpperLetters, i, i) = c
    THEN LET i == CHOOSE j \in 1..Len(UpperLetters) : SubSeq(UpperLetters, j, j) = c
         IN  SubSeq(LowerLetters, i, i)
    ELSE c

RECURSIVE Lower(_)
Lower(s) ==
    IF Len(s) = 0 THEN ""
    ELSE LowerChar(SubSeq(s, 1, 1)) \o Lower(SubSeq(s, 2, Len(s)))

Contains(needle, text) ==
    \E i \in 1..(Len(text) - Len(needle) + 1) :
        SubSeq(text, i, i + Len(needle) - 1) = needle

RECURSIVE SeqSum(_)
SeqSum(s) == IF s = <<>> THEN 0 ELSE Head(s) + SeqSum(Tail(s))

Range(s) == {s[i] : i \in DOMAIN s}

Min(a, b) == IF a < b THEN a ELSE b

--------------------------------------------------------------------------
(* JRETranscriptFetcher.__init__: the keyword table, in dict order.        *)

political_keywords ==
    [core_politics |->
        <<"politics", "political", "election", "democracy", "government",
          "policy", "legislation", "congress", "senate", "house">>,
     parties_ideologies |->
        <<"democrat", "republican", "liberal", "conservative",
          "libertarian", "progressive", "left wing", "right wing",
          "socialist", "capitalist">>,
     political_figures |->
        <<"trump", "biden", "obama", "clinton", "sanders", "warren",
          "pence", "harris", "pelosi", "mcconnell">>,
     policy_issues |->
        <<"immigration", "healthcare", "climate change", "foreign policy",
          "censorship", "free speech", "gun control", "abortion",
          "taxation", "welfare">>,
     cultural_issues |->
        <<"woke", "cancel culture", "identity politics", "social justice",
          "critical race theory", "gender", "equality", "diversity">>]

CategoryOrder ==
    <<"core_politics", "parties_ideologies", "political_figures",
      "policy_issues", "cultural_issues">>

Categories == Range(CategoryOrder)

\* Score units: tenths.
MatchWeight == 2

MaxScore == 10

ScoreThreshold == 3

--------------------------------------------------------------------------
(* calculate_political_score                                               *)

\* text = f"{title} {description}".lower()
ScoreText(t, d) == Lower(t \o " " \o d)

\* matches = sum(1 for keyword in keywords if keyword.lower() in text)
CategoryMatches(category, text) ==
    LET kws == political_keywords[category]
    IN  Cardinality({i \in DOMAIN kws : Contains(Lower(kws[i]), text)})

\* A faulty variant: it accumulates nothing and keeps the last category's share.
AccumulateOverwrite(acc, category, matches) ==
    IF matches > 0
    THEN [score |-> matches * MatchWeight,
          matching_categories |-> Append(acc.matching_categories, category)]
    ELSE acc

\* One pass of the loop body: if matches > 0: score += matches * 0.2; append.
Accumulate(acc, category, matches) ==
    IF matches > 0
    THEN [score |-> acc.score + matches * MatchWeight,
          matching_categories |-> Append(acc.matching_categories, category)]
    ELSE acc

\* A faulty variant: it returns the sum as it is.
ClampScoreOff(acc) == acc

\* return min(score, 1.0), matching_categories
ClampScore(acc) ==
    [score |-> Min(acc.score, MaxScore),
     matching_categories |-> acc.matching_categories]

RECURSIVE ScoreLoop(_, _, _)
ScoreLoop(acc, order, text) ==
    IF order = <<>> THEN acc
    ELSE ScoreLoop(Accumulate(acc, Head(order), CategoryMatches(Head(order), text)),
                   Tail(order), text)

calculate_political_score(t, d) ==
    ClampScore(ScoreLoop([score |-> 0, matching_categories |-> <<>>],
                         CategoryOrder, ScoreText(t, d)))

--------------------------------------------------------------------------
(* extract_episode_number and extract_guest_name (re.search on the title). *)

NoEpisode == -1

NoGuest == ""

Digits == "0123456789"

IsDigitAt(s, i) == i >= 1 /\ i <= Len(s) /\ Contains(SubSeq(s, i, i), Digits)

MinOf(S) == CHOOSE x \in S : \A y \in S : x <= y

\* int() of one decimal digit.
DigitValue(c) == (CHOOSE i \in 1..Len(Digits) : SubSeq(Digits, i, i) = c) - 1

RECURSIVE ParseInt(_)
ParseInt(s) ==
    IF Len(s) = 0 THEN 0
    ELSE 10 * ParseInt(SubSeq(s, 1, Len(s) - 1)) + DigitValue(SubSeq(s, Len(s), Len(s)))

\* The last index of the greedy \d+ run that starts at index from.
DigitRunEnd(s, from) ==
    CHOOSE e \in from..Len(s) :
        /\ \A k \in from..e : IsDigitAt(s, k)
        /\ ~IsDigitAt(s, e + 1)

\* Where `<prefix>\d` matches: the start indices of the occurrences of
\* prefix that a digit follows.
PrefixDigitStarts(prefix, s) ==
    {i \in 1..Len(s) :
        /\ i + Len(prefix) <= Len(s)
        /\ SubSeq(s, i, i + Len(prefix) - 1) = prefix
        /\ IsDigitAt(s, i + Len(prefix))}

\* A faulty variant: the patterns in another order.
EpisodePatternsByPosition == <<"JRE ", "Episode ", "#">>

\* patterns, without the group (\d+) each of them ends with.
EpisodePatterns == <<"#", "Episode ", "JRE ">>

RECURSIVE EpisodeSearch(_, _)
EpisodeSearch(patterns, title) ==
    IF patterns = <<>> THEN NoEpisode
    ELSE LET starts == PrefixDigitStarts(Head(patterns), title)
         IN  IF starts # {}
             THEN LET from == MinOf(starts) + Len(Head(patterns))
                  IN  ParseInt(SubSeq(title, from, DigitRunEnd(title, from)))
             ELSE EpisodeSearch(Tail(patterns), title)

extract_episode_number(title) == EpisodeSearch(EpisodePatterns, title)

RECURSIVE Strip(_)
Strip(s) ==
    IF Len(s) = 0 THEN s
    ELSE IF SubSeq(s, 1, 1) = " " THEN Strip(SubSeq(s, 2, Len(s)))
    ELSE IF SubSeq(s, Len(s), Len(s)) = " " THEN Strip(SubSeq(s, 1, Len(s) - 1))
    ELSE s

\* (.+?)(?: #|$) from index from: the shortest non-empty group that " #" or
\* the end of the title follows.
LazyGroup(s, from) ==
    LET ends == {e \in from..Len(s) :
                    e = Len(s) \/ (e + 2 <= Len(s) /\ SubSeq(s, e + 1, e + 2) = " #")}
    IN  SubSeq(s, from, MinOf(ends))

\* Start indices of the group for r'with (.+?)(?: #|$)'.
WithStarts(s) ==
    {i + 5 : i \in {j \in 1..Len(s) : j + 5 <= Len(s) /\ SubSeq(s, j, j + 4) = "with "}}

JREPrefix == "Joe Rogan Experience #"

\* Start indices of the group for r'Joe Rogan Experience #\d+ - (.+?)(?: #|$)'.
JREStarts(s) ==
    {DigitRunEnd(s, i + Len(JREPrefix)) + 4 :
        i \in {j \in PrefixDigitStarts(JREPrefix, s) :
                LET e == DigitRunEnd(s, j + Len(JREPrefix))
                IN  e + 4 <= Len(s) /\ SubSeq(s, e + 1, e + 3) = " - "}}

extract_guest_name(title) ==
    IF WithStarts(title) # {} THEN Strip(LazyGroup(title, MinOf(WithStarts(title))))
    ELSE IF JREStarts(title) # {} THEN Strip(LazyGroup(title, MinOf(JREStarts(title))))
    ELSE NoGuest

--------------------------------------------------------------------------
(* The video platform: what videos().list and get_transcript hand out.     *)

VideoIds == {"v1", "v2", "v3"}

Details ==
    [v1 |-> [title |-> "Joe Rogan Experience #1234 - Bernie Sanders",
             description |-> "Healthcare and the election",
             channel_title |-> "PowerfulJRE",
             year |-> 2019],
     v2 |-> [title |-> "Best of the Week",
             description |-> "Joe on the election",
             channel_title |-> "PowerfulJRE",
             year |-> 2020],
     v3 |-> [title |-> "Trump on immigration",
             description |-> "",
             channel_title |-> "PowerfulJRE",
             year |-> 2021]]

\* A transcript is a list of {text, start, duration}.
TranscriptA ==
    <<[text |-> "hello there", start |-> 0, duration |-> 4],
      [text |-> "welcome back", start |-> 4, duration |-> 3]>>

TranscriptB == <<[text |-> "one more time", start |-> 0, duration |-> 5]>>

EmptyTranscript == <<>>

Transcripts == {TranscriptA, TranscriptB, EmptyTranscript}

--------------------------------------------------------------------------
(* DatabaseManager: the tables and the operations on them.                 *)
(* videos and segments are lists of rows in insertion order; guests is the *)
(* set of guest names.                                                     *)

NoVideo == [video_id |-> "", none |-> TRUE]

RowIndexes(vs, id) == {i \in DOMAIN vs : vs[i].video_id = id}

RemoveAt(s, i) == SubSeq(s, 1, i - 1) \o SubSeq(s, i + 1, Len(s))

RECURSIVE SelectRows(_, _)
SelectRows(rows, id) ==
    IF rows = <<>> THEN <<>>
    ELSE IF Head(rows).video_id = id
         THEN <<Head(rows)>> \o SelectRows(Tail(rows), id)
         ELSE SelectRows(Tail(rows), id)

RECURSIVE RejectRows(_, _)
RejectRows(rows, id) ==
    IF rows = <<>> THEN <<>>
    ELSE IF Head(rows).video_id = id
         THEN RejectRows(Tail(rows), id)
         ELSE <<Head(rows)>> \o RejectRows(Tail(rows), id)

\* session.query(Video).filter(Video.video_id == video_id).first()
get_video(vs, id) ==
    IF RowIndexes(vs, id) = {} THEN NoVideo ELSE vs[MinOf(RowIndexes(vs, id))]

\* Row i comes before row j under ORDER BY start_time; rows of one start
\* time come as the table holds them.
StartsBefore(segs, i, j) ==
    \/ segs[i].start_time < segs[j].start_time
    \/ (segs[i].start_time = segs[j].start_time /\ i < j)

\* The positions of the rows of the video, in the order of the query.
OrderedIndexes(segs, id) ==
    LET S == RowIndexes(segs, id)
    IN  [k \in 1..Cardinality(S) |->
            CHOOSE i \in S : Cardinality({j \in S : StartsBefore(segs, j, i)}) = k - 1]

\* A faulty variant: it lacks the ORDER BY and returns the rows as the
\* table holds them.
get_transcript_segments_unordered(segs, id) ==
    LET S == RowIndexes(segs, id)
    IN  [k \in 1..Cardinality(S) |->
            segs[CHOOSE i \in S : Cardinality({j \in S : j < i}) = k - 1]]

\* session.query(TranscriptSegment).filter(video_id == ...)
\*     .order_by(TranscriptSegment.start_time).all()
get_transcript_segments(segs, id) ==
    LET ord == OrderedIndexes(segs, id)
    IN  [k \in DOMAIN ord |-> segs[ord[k]]]

\* Video(**video_data); is_processed takes the column default.
VideoRow(video_data) ==
    [video_id |-> video_data.video_id,
     title |-> video_data.title,
     channel_title |-> video_data.channel_title,
     year |-> video_data.year,
     political_score |-> video_data.political_score,
     political_categories |-> video_data.political_categories,
     episode_number |-> video_data.episode_number,
     guest |-> video_data.guest,
     is_processed |-> FALSE]

\* A faulty variant: it has no unique constraint on video_id.
add_video_no_unique(vs, video_data, storage_ok) ==
    IF ~storage_ok
    THEN [videos |-> vs, ok |-> FALSE]
    ELSE [videos |-> Append(vs, VideoRow(video_data)), ok |-> TRUE]

\* add_video: the commit fails on a storage error or on the unique
\* constraint of video_id (IntegrityError); both roll back and return None.
add_video(vs, video_data, storage_ok) ==
    IF ~storage_ok \/ RowIndexes(vs, video_data.video_id) # {}
    THEN [videos |-> vs, ok |-> FALSE]
    ELSE [videos |-> Append(vs, VideoRow(video_data)), ok |-> TRUE]

\* The highest primary key of the table; the next row gets the one after.
MaxId(segs) ==
    IF segs = <<>> THEN 0
    ELSE CHOOSE m \in {segs[i].id : i \in DOMAIN segs} :
            \A i \in DOMAIN segs : segs[i].id <= m

SegmentRow(pk, id, segment_data) ==
    [id |-> pk,
     video_id |-> id,
     text |-> segment_data.text,
     start_time |-> segment_data.start,
     duration |-> segment_data.duration]

\* A faulty variant: it has no foreign key from the segment to the video.
add_transcript_segments_unchecked(vs, segs, id, transcript, storage_ok) ==
    IF ~storage_ok
    THEN segs
    ELSE segs \o [i \in DOMAIN transcript |->
                     SegmentRow(MaxId(segs) + i, id, transcript[i])]

\* add_transcript_segments: all rows are added in one transaction; an
\* exception (a storage error, or the foreign key on a missing video) rolls
\* it back and is swallowed.
add_transcript_segments(vs, segs, id, transcript, storage_ok) ==
    IF ~storage_ok \/ RowIndexes(vs, id) = {}
    THEN segs
    ELSE segs \o [i \in DOMAIN transcript |->
                     SegmentRow(MaxId(segs) + i, id, transcript[i])]

\* A faulty variant: it deletes the video row and leaves its segments behind.
delete_video_no_cascade(vs, segs, id, storage_ok) ==
    IF ~storage_ok \/ RowIndexes(vs, id) = {}
    THEN [videos |-> vs, segments |-> segs]
    ELSE [videos |-> RemoveAt(vs, MinOf(RowIndexes(vs, id))), segments |-> segs]

\* delete_video: session.delete(video) cascades to the video's segments.
delete_video(vs, segs, id, storage_ok) ==
    IF ~storage_ok \/ RowIndexes(vs, id) = {}
    THEN [videos |-> vs, segments |-> segs]
    ELSE [videos |-> RemoveAt(vs, MinOf(RowIndexes(vs, id))),
          segments |-> RejectRows(segs, id)]

\* video.is_processed = True on the locked row, committed.
SetProcessed(vs, id) ==
    [vs EXCEPT ![MinOf(RowIndexes(vs, id))].is_processed = TRUE]

\* mark_video_processed, by what it leaves in the store: the flag is set
\* when one of its attempts found the row and committed.
mark_video_processed(vs, id, committed) ==
    IF committed /\ RowIndexes(vs, id) # {}
    THEN [videos |-> SetProcessed(vs, id), ok |-> TRUE]
    ELSE [videos |-> vs, ok |-> FALSE]

\* get_or_create_guest
get_or_create_guest(gs, name) == gs \cup {name}

--------------------------------------------------------------------------
(* CollectionMonitor: the stats and the operations on them.                *)
(* dflt tells whether the maps are defaultdicts (a fresh _init_stats) or   *)
(* plain dicts (json.load of the stats file).                              *)

EmptyMap == <<>>

HasKey(m, k) == k \in DOMAIN m

Bump(m, k, n) ==
    IF HasKey(m, k) THEN [m EXCEPT ![k] = @ + n] ELSE m @@ (k :> n)

NewDay == [videos_processed |-> 0, segments_collected |-> 0, errors |-> 0]

_init_stats ==
    [dflt |-> TRUE,
     total_videos |-> 0,
     processed_videos |-> 0,
     failed_videos |-> 0,
     total_segments |-> 0,
     videos_by_year |-> EmptyMap,
     videos_by_guest |-> EmptyMap,
     political_categories |-> EmptyMap,
     processing_times |-> <<>>,
     error_counts |-> EmptyMap,
     daily_stats |-> EmptyMap]

NoFile == [file |-> "absent"]

\* json.dump(self.stats): the file holds plain maps.
Dumped(st) == [st EXCEPT !.dflt = FALSE]

\* The file after open(self.stats_file, 'w') truncated it and before
\* json.dump wrote its last character: no JSON document.
Partial == [file |-> "partial"]

\* A faulty variant: it takes whatever the file holds for the stats.
_load_stats_unguarded(file) == IF file = NoFile THEN _init_stats ELSE file

\* _load_stats: no file, or a file json.load cannot parse, gives new stats.
_load_stats(file) == IF file \in {NoFile, Partial} THEN _init_stats ELSE file

\* What a call of _save_stats can do to the file: write it whole; fail in
\* open() and leave it alone; fail in a write of json.dump and leave a
\* part of the text (both logged and swallowed); or the process is killed
\* between the truncation and the last write.
SaveOutcomes == {"written", "open_failed", "write_failed", "killed"}

\* _save_stats: the file it leaves.
_save_stats(st, file, outcome) ==
    CASE outcome = "written" -> Dumped(st)
      [] outcome = "open_failed" -> file
      [] OTHER -> Partial

\* m[k] raises KeyError: a plain dict without the key.
KeyError(st, m, k) == ~st.dflt /\ ~HasKey(m, k)

\* daily_stats[today][field] += n
StampDay(st, day, field, n) ==
    LET bucket == IF HasKey(st.daily_stats, day) THEN st.daily_stats[day] ELSE NewDay
    IN  [st EXCEPT !.daily_stats =
            (day :> [bucket EXCEPT ![field] = @ + n]) @@ st.daily_stats]

\* record_error: the stats as the call leaves them, and whether it raised
\* (then nothing was saved).
record_error(st, error_type, has_id, day) ==
    IF KeyError(st, st.error_counts, error_type)
    THEN [stats |-> st, raised |-> TRUE]
    ELSE LET s1 == [st EXCEPT !.error_counts = Bump(@, error_type, 1)]
             s2 == IF has_id THEN [s1 EXCEPT !.failed_videos = @ + 1] ELSE s1
         IN  IF KeyError(st, st.daily_stats, day)
             THEN [stats |-> s2, raised |-> TRUE]
             ELSE [stats |-> StampDay(s2, day, "errors", 1), raised |-> FALSE]

RECURSIVE CountCategories(_, _)
CountCategories(st, cats) ==
    IF cats = <<>> THEN [stats |-> st, raised |-> FALSE]
    ELSE IF KeyError(st, st.political_categories, Head(cats))
         THEN [stats |-> st, raised |-> TRUE]
         ELSE CountCategories(
                  [st EXCEPT !.political_categories = Bump(@, Head(cats), 1)],
                  Tail(cats))

\* update_video_processed for a video that get_video resolved.
UpdateResolved(st, video, success, segment_count, processing_time, day) ==
    LET s1 == [st EXCEPT !.total_videos = @ + 1,
                         !.processed_videos = IF success THEN @ + 1 ELSE @,
                         !.total_segments = IF success THEN @ + segment_count ELSE @,
                         !.failed_videos = IF success THEN @ ELSE @ + 1]
        s2 == [s1 EXCEPT !.videos_by_year = Bump(@, video.year, 1)]
        s3 == IF video.guest # NoGuest
              THEN [s2 EXCEPT !.videos_by_guest = Bump(@, video.guest, 1)]
              ELSE s2
        c4 == CountCategories(s3, video.political_categories)
        s5 == IF processing_time > 0
              THEN [c4.stats EXCEPT !.processing_times = Append(@, processing_time)]
              ELSE c4.stats
        s6 == StampDay(StampDay(s5, day, "videos_processed", 1),
                       day, "segments_collected", segment_count)
    IN  IF KeyError(st, st.videos_by_year, video.year)
        THEN [stats |-> s1, raised |-> TRUE]
        ELSE IF video.guest # NoGuest /\ KeyError(st, st.videos_by_guest, video.guest)
        THEN [stats |-> s2, raised |-> TRUE]
        ELSE IF c4.raised
        THEN [stats |-> c4.stats, raised |-> TRUE]
        ELSE IF KeyError(st, st.daily_stats, day)
        THEN [stats |-> s5, raised |-> TRUE]
        ELSE [stats |-> s6, raised |-> FALSE]

\* A faulty variant: it counts the video before it looks it up.
update_video_processed_unguarded(st, video, success, segment_count, processing_time, day) ==
    IF video = NoVideo
    THEN [stats |-> [st EXCEPT !.total_videos = @ + 1], raised |-> FALSE,
          saved |-> TRUE]
    ELSE LET r == UpdateResolved(st, video, success, segment_count,
                                 processing_time, day)
         IN  [stats |-> r.stats, raised |-> r.raised, saved |-> ~r.raised]

\* update_video_processed: a no-op when the video cannot be resolved.
update_video_processed(st, video, success, segment_count, processing_time, day) ==
    IF video = NoVideo
    THEN [stats |-> st, raised |-> FALSE, saved |-> FALSE]
    ELSE LET r == UpdateResolved(st, video, success, segment_count,
                                 processing_time, day)
         IN  [stats |-> r.stats, raised |-> r.raised, saved |-> ~r.raised]

\* str() of a natural number.
RECURSIVE Decimal(_)
Decimal(n) ==
    IF n < 10 THEN SubSeq(Digits, n + 1, n + 1)
    ELSE Decimal(n \div 10) \o SubSeq(Digits, (n % 10) + 1, (n % 10) + 1)

\* round(100 * num / den), a tie going to the even neighbour, as the
\* format of a float rounds its exact value.
RoundedHundredths(num, den) ==
    LET q == (100 * num) \div den
        r == (100 * num) % den
    IN  IF 2 * r > den \/ (2 * r = den /\ q % 2 = 1) THEN q + 1 ELSE q

\* f"{(num/den*100):.2f}%"
FormatPercent(num, den) ==
    LET c == RoundedHundredths(100 * num, den)
        frac == c % 100
    IN  Decimal(c \div 100) \o "." \o Decimal(frac \div 10) \o Decimal(frac % 10)
            \o "%"

RECURSIVE Gcd(_, _)
Gcd(a, b) == IF b = 0 THEN a ELSE Gcd(b, a % b)

\* The number a / b of a true division, as a fraction in lowest terms.
Quotient(a, b) == [num |-> a \div Gcd(a, b), den |-> b \div Gcd(a, b)]

\* The number 0 of the else branches.
Zero == [num |-> 0, den |-> 1]

\* A faulty variant: it divides the segments by all the videos counted.
AverageSegmentsOfTotal(st) ==
    IF st.total_videos > 0 THEN Quotient(st.total_segments, st.total_videos)
    ELSE Zero

\* 'average_segments_per_video'
AverageSegments(st) ==
    IF st.processed_videos > 0
    THEN Quotient(st.total_segments, st.processed_videos)
    ELSE Zero

\* 'success_rate'
SuccessRate(st) ==
    IF st.total_videos > 0 THEN FormatPercent(st.processed_videos, st.total_videos)
    ELSE "N/A"

\* get_collection_summary: the counts, the rate and the averages of the
\* summary (the top lists and the time statistics are not modelled).
get_collection_summary(st) ==
    [total_videos |-> st.total_videos,
     processed_videos |-> st.processed_videos,
     success_rate |-> SuccessRate(st),
     total_segments |-> st.total_segments,
     average_segments_per_video |-> AverageSegments(st),
     error_summary |-> st.error_counts]

\* get_daily_report: the loop from current_date to end_date. Reading
\* daily_stats[date_str] raises KeyError on a plain dict without the day
\* and puts a new bucket into a defaultdict.
RECURSIVE DailyLoop(_, _, _, _)
DailyLoop(st, current_date, end_date, daily_data) ==
    IF ~(current_date <= end_date)
    THEN [stats |-> st, raised |-> FALSE, daily_data |-> daily_data]
    ELSE IF KeyError(st, st.daily_stats, current_date)
    THEN [stats |-> st, raised |-> TRUE, daily_data |-> <<>>]
    ELSE LET s1 == StampDay(st, current_date, "errors", 0)
             b == s1.daily_stats[current_date]
         IN  DailyLoop(s1, current_date + 1, end_date,
                       Append(daily_data,
                              [date |-> current_date,
                               videos_processed |-> b.videos_processed,
                               segments_collected |-> b.segments_collected,
                               errors |-> b.errors]))

\* get_daily_report(days) on the day `day`.
get_daily_report(st, days, day) == DailyLoop(st, day - days, day, <<>>)

\* self.db.get_videos_by_guest(guest_name): the rows of the guest.
get_videos_by_guest(vs, gs, guest_name) ==
    IF guest_name \notin gs THEN <<>>
    ELSE SelectSeq(vs, LAMBDA v : v.guest = guest_name)

RECURSIVE SumScores(_)
SumScores(rows) ==
    IF rows = <<>> THEN 0 ELSE Head(rows).political_score + SumScores(Tail(rows))

\* The statistics of one guest with rows in the store.
GuestRecord(count, rows) ==
    [appearance_count |-> count,
     first_appearance |-> MinOf({rows[i].year : i \in DOMAIN rows}),
     last_appearance |-> -MinOf({-rows[i].year : i \in DOMAIN rows}),
     average_political_score |-> Quotient(SumScores(rows), Len(rows))]

\* The statistics of a guest without rows.
GuestRecordEmpty(count) ==
    [appearance_count |-> count, first_appearance |-> 0, last_appearance |-> 0,
     average_political_score |-> Zero]

\* get_guest_statistics: a record for every counted guest the guests table
\* knows; it reads the stats and the store.
get_guest_statistics(st, gs, vs) ==
    [g \in {x \in DOMAIN st.videos_by_guest : x \in gs} |->
        LET rows == get_videos_by_guest(vs, gs, g)
        IN  IF rows = <<>> THEN GuestRecordEmpty(st.videos_by_guest[g])
            ELSE GuestRecord(st.videos_by_guest[g], rows)]

--------------------------------------------------------------------------
(* DataQualityChecker.check_transcript_completeness                        *)
(* Times are whole seconds: on them the float additions and subtractions   *)
(* of the code are exact.                                                  *)

\* if len(segments) < 10
MinSegmentCount == 10

\* if next_start - current_end > 5.0
GapThreshold == 5

\* if len(segment.text.strip()) < 5
MinTextLength == 5

TooFew(n) == n < MinSegmentCount

\* A faulty variant: it reports a gap of the threshold itself.
IsGapInclusive(current_end, next_start) == next_start - current_end >= GapThreshold

IsGap(current_end, next_start) == next_start - current_end > GapThreshold

\* A faulty variant: it takes a text of the minimum length for short.
IsShortInclusive(text) == Len(Strip(text)) <= MinTextLength

IsShort(text) == Len(Strip(text)) < MinTextLength

\* for i in range(len(segments) - 1): ... time_gaps.append((current_end,
\* next_start))
RECURSIVE TimeGaps(_, _)
TimeGaps(rows, i) ==
    IF i >= Len(rows) THEN <<>>
    ELSE LET current_end == rows[i].start_time + rows[i].duration
             next_start == rows[i + 1].start_time
         IN  (IF IsGap(current_end, next_start)
              THEN <<(<<current_end, next_start>>)>> ELSE <<>>)
             \o TimeGaps(rows, i + 1)

\* short_segments: the ids of the short rows, in the order of the rows.
RECURSIVE ShortSegments(_)
ShortSegments(rows) ==
    IF rows = <<>> THEN <<>>
    ELSE (IF IsShort(Head(rows).text) THEN <<Head(rows).id>> ELSE <<>>)
         \o ShortSegments(Tail(rows))

\* Counter(...): the stripped texts that occur more than once, each at the
\* place of its first occurrence.
RECURSIVE Duplicates(_, _)
Duplicates(rows, i) ==
    IF i > Len(rows) THEN <<>>
    ELSE LET t == Strip(rows[i].text)
             first == \A j \in 1..(i - 1) : Strip(rows[j].text) # t
             again == \E j \in (i + 1)..Len(rows) : Strip(rows[j].text) = t
         IN  (IF first /\ again THEN <<t>> ELSE <<>>) \o Duplicates(rows, i + 1)

\* issues[key] = value when the condition holds.
IssueIf(cond, key, value) == IF cond THEN key :> value ELSE EmptyMap

check_transcript_completeness(vs, segs, id) ==
    LET video == get_video(vs, id)
        rows == get_transcript_segments(segs, id)
        time_gaps == TimeGaps(rows, 1)
        short_segments == ShortSegments(rows)
        duplicates == Duplicates(rows, 1)
        issues == IssueIf(TooFew(Len(rows)), "segment_count", Len(rows))
                  @@ IssueIf(time_gaps # <<>>, "time_gaps", time_gaps)
                  @@ IssueIf(short_segments # <<>>, "short_segments", short_segments)
                  @@ IssueIf(duplicates # <<>>, "duplicates", duplicates)
    IN  IF video = NoVideo
        THEN [complete |-> FALSE, issues |-> [error |-> "Video not found"]]
        ELSE IF rows = <<>>
        THEN [complete |-> FALSE, issues |-> [error |-> "No transcript segments found"]]
        ELSE [complete |-> DOMAIN issues = {}, issues |-> issues]

--------------------------------------------------------------------------
(* DataQualityChecker.validate_video_metadata                              *)

\* political_score of a row that has none (None).
NoScore == -1

\* datetime(2017, 1, 1): the year of the earliest date accepted.
EarliestYear == 2017

\* issues[key] = ...: the keys of the issues dict.
FlagIf(cond, key) == IF cond THEN {key} ELSE {}

required_fields == <<"title", "published_at", "video_id", "channel_title">>

\* `not getattr(video, field)`: None, '' and 0 are all false.
IsMissing(video, field) ==
    CASE field = "title" -> video.title = ""
      [] field = "published_at" -> FALSE
      [] field = "video_id" -> video.video_id = ""
      [] field = "channel_title" -> video.channel_title = ""

MissingFields(video) ==
    {"missing_" \o required_fields[i] :
        i \in {j \in DOMAIN required_fields : IsMissing(video, required_fields[j])}}

\* The dates by their years: published_at against utcnow() and 2017-01-01.
DateIssues(video, now_year) ==
    FlagIf(video.year > now_year, "future_date")
        \cup FlagIf(video.year < EarliestYear, "date_range")

\* `if video.episode_number:` is false for None and for 0.
EpisodePresent(episode_number) ==
    episode_number # NoEpisode /\ episode_number # 0

\* The column is an Integer: isinstance(..., int) holds for what it stores.
EpisodeIssues(video) ==
    FlagIf(EpisodePresent(video.episode_number) /\ video.episode_number < 1,
            "episode_number")

\* not 0 <= video.political_score <= 1
ScoreOutOfRange(political_score) ==
    ~(0 <= political_score /\ political_score <= MaxScore)

ScoreIssues(video) ==
    FlagIf(video.political_score # NoScore /\ ScoreOutOfRange(video.political_score),
            "political_score")

validate_video_metadata(vs, id, now_year) ==
    LET video == get_video(vs, id)
        issues == MissingFields(video) \cup DateIssues(video, now_year)
                      \cup EpisodeIssues(video) \cup ScoreIssues(video)
    IN  IF video = NoVideo THEN [valid |-> FALSE, issues |-> {"error"}]
        ELSE [valid |-> issues = {}, issues |-> issues]

\* The year of datetime.utcnow() at the time of a call.
MetaNowYears == {2025}

--------------------------------------------------------------------------
(* Bounds of the model.                                                    *)

\* Fetchers constructed (collection runs) in one behaviour.
MaxRuns == 2

\* Keywords a search run goes through.
NumSearchKeywords == 1

\* maxResults: items in one search response.
MaxResults == 2

\* Days the runs spread over.
MaxDay == 2

\* Relevant videos the searches of one behaviour find, all runs together.
MaxFound == 3

\* Failures of the transcript API and of storage calls in one behaviour.
MaxFaults == 3

--------------------------------------------------------------------------
(* Program constants.                                                      *)

\* get_transcript_with_backoff: max_attempts
max_attempts == 3

\* mark_video_processed: max_retries
max_retries == 3

Procs == {1, 2}

ProcessingTimes == {1}

\* A call that may fail takes its failure from the budget.
Inject(ok) ==
    /\ ~ok => faults < MaxFaults
    /\ faults' = IF ok THEN faults ELSE faults + 1

--------------------------------------------------------------------------
(* search_political_videos                                                 *)

\* video_info of a video, from its details.
build_video_info(id) ==
    LET d == Details[id]
        r == calculate_political_score(d.title, d.description)
    IN  [video_id |-> id,
         title |-> d.title,
         channel_title |-> d.channel_title,
         year |-> d.year,
         political_score |-> r.score,
         political_categories |-> r.matching_categories,
         episode_number |-> extract_episode_number(d.title),
         guest |-> extract_guest_name(d.title)]

VideoInfo == [id \in VideoIds |-> build_video_info(id)]

\* A faulty variant: it keeps every video that matched a keyword.
IsRelevantAnyMatch(political_score) == political_score > 0

\* if political_score < 0.3: continue
IsRelevant(political_score) == ~(political_score < ScoreThreshold)

\* What videos().list does for an item: the details arrive ("ok"), or they
\* do not (it raises, or its items are empty).
DetailOutcomes == {"ok", "no_details"}

\* A faulty variant: it takes every item for a new video.
AlreadySeenNever(video_id, seen_video_ids) == FALSE

\* if video_id in seen_video_ids: continue
AlreadySeen(video_id, seen_video_ids) == video_id \in seen_video_ids

\* No videos().list request made yet: the requests made, by video id.
NoDetails == [id \in VideoIds |-> 0]

\* The loop over response['items']: a new id is put into the seen-set and
\* its details are requested.
RECURSIVE ScanItems(_, _, _)
ScanItems(items, outcome, acc) ==
    IF items = <<>> THEN acc
    ELSE LET id == Head(items)
             info == VideoInfo[id]
             seen1 == [acc EXCEPT !.seen = @ \cup {id}, !.details[id] = @ + 1]
             withGuest == IF info.guest # NoGuest
                          THEN [seen1 EXCEPT !.guests = get_or_create_guest(@, info.guest)]
                          ELSE seen1
         IN  IF AlreadySeen(id, acc.seen)
             THEN ScanItems(Tail(items), outcome, acc)
             ELSE IF outcome[id] = "no_details"
             THEN ScanItems(Tail(items), outcome, seen1)
             ELSE IF ~IsRelevant(info.political_score)
             THEN ScanItems(Tail(items), outcome,
                            [seen1 EXCEPT !.rejected = @ \cup {id}])
             ELSE ScanItems(Tail(items), outcome,
                            [withGuest EXCEPT !.found = Append(@, info)])

SearchResponses ==
    UNION {[1..n -> VideoIds] : n \in 0..MaxResults}

NoVideoData == [video_id |-> "", none |-> TRUE]

\* Nothing done yet by a process_video call.
NoCall ==
    [calls |-> 0, last |-> "none", fetched |-> EmptyTranscript,
     marks |-> 0, committed |-> FALSE, marked |-> FALSE, reread |-> FALSE,
     existed |-> "unknown", path |-> "none", segments_lost |-> FALSE,
     errors0 |-> 0, segments0 |-> 0,
     quality |-> "none", is_complete |-> FALSE, is_valid |-> FALSE,
     sleeps |-> <<>>, videos0 |-> <<>>, failed0 |-> 0]

\* A fetcher after __init__, about to run process_videos.
NewWorker ==
    [pc |-> "search", kw |-> 0, seen |-> {}, rejected |-> {},
     found |-> <<>>, queue |-> <<>>,
     video |-> NoVideoData, transcript |-> EmptyTranscript,
     attempt |-> 0, mark_attempt |-> 0, ret |-> "none", summary |-> FALSE]

Off == [NewWorker EXCEPT !.pc = "off"]

\* One keyword of search_political_videos: the search, and the loop over
\* its items. After the last keyword the list goes to process_videos, which
\* returns at once when it is empty.
SearchResult(p, details, http_ok, items, outcome) ==
    LET acc == [seen |-> w[p].seen, rejected |-> w[p].rejected,
                found |-> w[p].found, guests |-> guests, details |-> details]
    IN  IF http_ok THEN ScanItems(items, outcome, acc) ELSE acc

SearchStep(p, num_keywords, details, http_ok, items, outcome) ==
    /\ w[p].pc = "search"
    /\ w[p].kw < num_keywords
    /\ LET res == SearchResult(p, details, http_ok, items, outcome)
           last == w[p].kw + 1 = num_keywords
       IN  /\ (~http_ok => items = <<>> /\ outcome = [v \in VideoIds |-> "ok"])
           /\ found_total + Len(res.found) - Len(w[p].found) <= MaxFound
           /\ found_total' = found_total + Len(res.found) - Len(w[p].found)
           /\ guests' = res.guests
           /\ w' = [w EXCEPT ![p] =
                       [@ EXCEPT !.kw = @ + 1,
                                 !.seen = IF last THEN {} ELSE res.seen,
                                 !.rejected = res.rejected,
                                 !.found = res.found,
                                 !.queue = IF last THEN res.found ELSE <<>>,
                                 !.pc = IF ~last THEN "search"
                                        ELSE IF res.found = <<>> THEN "done"
                                        ELSE "loop"]]
    /\ UNCHANGED <<videos, segments, blob, today, runs, faults, stats, h>>

SearchKeyword(p) ==
    /\ \E http_ok \in BOOLEAN, items \in SearchResponses,
          outcome \in [VideoIds -> DetailOutcomes] :
           SearchStep(p, NumSearchKeywords, NoDetails, http_ok, items, outcome)
    /\ UNCHANGED sc

--------------------------------------------------------------------------
(* process_videos and process_video, one storage or platform call a step.  *)

RECURSIVE MapSum(_, _)
MapSum(m, keys) ==
    IF keys = {} THEN 0
    ELSE LET k == CHOOSE x \in keys : TRUE
         IN  m[k] + MapSum(m, keys \ {k})

\* The sum of the error-type counters.
ErrorTotal(st) == MapSum(st.error_counts, DOMAIN st.error_counts)

\* self.monitor.record_error(error_type, video_id) as the last statement
\* before `return False`, outside any try: KeyError leaves process_video.
Fail(st, file, error_type, day) ==
    LET r == record_error(st, error_type, TRUE, day)
    IN  [stats |-> r.stats,
         blob |-> IF r.raised THEN file ELSE Dumped(r.stats),
         ret |-> IF r.raised THEN "Raise" ELSE "False"]

\* The same inside a try whose handler records handler_type and returns
\* False: a KeyError of the first call runs the handler.
FailInTry(st, file, error_type, handler_type, day) ==
    LET r == record_error(st, error_type, TRUE, day)
    IN  IF r.raised THEN Fail(r.stats, file, handler_type, day)
        ELSE [stats |-> r.stats, blob |-> Dumped(r.stats), ret |-> "False"]

\* A faulty variant: it skips nothing: a processed video is handled like a new one.
ShouldSkipNever(existing) == FALSE

\* if existing_video: if existing_video.is_processed: return True
ShouldSkip(existing) == existing # NoVideo /\ existing.is_processed

\* else: self.db.delete_video(video_id)
ShouldDelete(existing) == existing # NoVideo /\ ~existing.is_processed

Returned(p, value) == [w[p] EXCEPT !.pc = "pv_ret", !.ret = value]

\* for i, video in enumerate(videos, 1): process_video(video) is entered.
BeginVideo(p) ==
    /\ w[p].pc = "loop"
    /\ w[p].queue # <<>>
    /\ w' = [w EXCEPT ![p] =
                [@ EXCEPT !.pc = "pv_start",
                          !.video = Head(w[p].queue),
                          !.queue = Tail(w[p].queue),
                          !.transcript = EmptyTranscript,
                          !.attempt = 0,
                          !.mark_attempt = 0,
                          !.ret = "none"]]
    /\ h' = [h EXCEPT ![p] =
                [NoCall EXCEPT
                    !.errors0 = ErrorTotal(stats[p]),
                    !.failed0 = stats[p].failed_videos,
                    !.segments0 =
                        Len(get_transcript_segments(segments,
                                                    Head(w[p].queue).video_id))]]
    /\ UNCHANGED <<videos, segments, guests, blob, today, runs, found_total, faults,
                   stats, sc>>

\* The loop is over: get_collection_summary and check_duplicate_videos.
Summary(p) ==
    /\ w[p].pc = "loop"
    /\ w[p].queue = <<>>
    /\ w' = [w EXCEPT ![p] = [@ EXCEPT !.pc = "done", !.summary = TRUE]]
    /\ UNCHANGED <<videos, segments, guests, blob, today, runs, found_total, faults,
                   stats, h, sc>>

\* existing_video = self.db.get_video(video_id), and the branch on it.
PV_Start(p) ==
    /\ w[p].pc = "pv_start"
    /\ \E storage_ok \in BOOLEAN :
        LET existing == get_video(videos, w[p].video.video_id)
        IN  /\ Inject(storage_ok)
            /\ IF ~storage_ok
               THEN /\ w' = [w EXCEPT ![p] = Returned(p, "Raise")]
                    /\ h' = [h EXCEPT ![p].path = "raise"]
               ELSE IF ShouldSkip(existing)
               THEN /\ w' = [w EXCEPT ![p] = Returned(p, "True")]
                    /\ h' = [h EXCEPT ![p].path = "skip", ![p].existed = "processed"]
               ELSE IF ShouldDelete(existing)
               THEN /\ w' = [w EXCEPT ![p].pc = "pv_delete"]
                    /\ h' = [h EXCEPT ![p].path = "reprocess",
                                      ![p].existed = "unprocessed"]
               ELSE /\ w' = [w EXCEPT ![p].pc = "pv_fetch"]
                    /\ h' = [h EXCEPT ![p].path = "new",
                                      ![p].existed = IF existing = NoVideo THEN "no"
                                                     ELSE "processed"]
    /\ UNCHANGED <<videos, segments, guests, blob, today, runs, found_total, stats, sc>>

\* self.db.delete_video(video_id); its result is not looked at.
PV_Delete(p) ==
    /\ w[p].pc = "pv_delete"
    /\ \E storage_ok \in BOOLEAN :
        LET r == delete_video(videos, segments, w[p].video.video_id, storage_ok)
        IN  /\ Inject(storage_ok)
            /\ videos' = r.videos
            /\ segments' = r.segments
    /\ w' = [w EXCEPT ![p].pc = "pv_fetch"]
    /\ UNCHANGED <<guests, blob, today, runs, found_total, stats, h, sc>>

\* What one call of YouTubeTranscriptApi.get_transcript does.
FetchResults ==
    {[kind |-> "rate_limited", transcript |-> EmptyTranscript],
     [kind |-> "error", transcript |-> EmptyTranscript]}
    \cup {[kind |-> "ok", transcript |-> t] : t \in Transcripts}

\* A faulty variant: it retries after every error.
RetryAlways(result) == result.kind \in {"rate_limited", "error"}

\* if "too many requests" in str(e).lower()
Retry(result) == result.kind = "rate_limited"

\* while attempt < max_attempts
MoreAttempts(attempt) == attempt < max_attempts

\* wait_time = (2 ** attempt) * 1
wait_time(attempt) == (2 ^ attempt) * 1

\* The time.sleep calls of the invocation after one more failed attempt:
\* the rate-limit branch sleeps and then increments attempt, whether or not
\* the loop goes on.
Sleeps(sleeps, result, attempt) ==
    IF result.kind # "ok" /\ Retry(result)
    THEN Append(sleeps, wait_time(attempt)) ELSE sleeps

\* One pass of the loop of get_transcript_with_backoff; when the function
\* returns, process_video goes on: `if not transcript` records no_transcript.
PV_Fetch(p) ==
    /\ w[p].pc = "pv_fetch"
    /\ \E result \in FetchResults :
        LET got == result.kind = "ok"
            again == ~got /\ Retry(result) /\ MoreAttempts(w[p].attempt + 1)
            transcript == IF got THEN result.transcript ELSE EmptyTranscript
            attempt == IF ~got /\ Retry(result) THEN w[p].attempt + 1 ELSE w[p].attempt
            f == Fail(stats[p], blob, "no_transcript", today)
        IN  /\ Inject(got)
            /\ h' = [h EXCEPT ![p].calls = @ + 1,
                              ![p].last = result.kind,
                              ![p].fetched = transcript,
                              ![p].sleeps = Sleeps(@, result, w[p].attempt),
                              ![p].path = IF again \/ transcript # EmptyTranscript
                                          THEN @ ELSE "no_transcript"]
            /\ IF again
               THEN /\ w' = [w EXCEPT ![p].attempt = attempt]
                    /\ UNCHANGED <<stats, blob>>
               ELSE IF transcript # EmptyTranscript
               THEN /\ w' = [w EXCEPT ![p].pc = "pv_add_video",
                                      ![p].transcript = transcript]
                    /\ UNCHANGED <<stats, blob>>
               ELSE /\ w' = [w EXCEPT ![p] =
                                [Returned(p, f.ret) EXCEPT !.attempt = attempt]]
                    /\ stats' = [stats EXCEPT ![p] = f.stats]
                    /\ blob' = f.blob
    /\ UNCHANGED <<videos, segments, guests, today, runs, found_total, sc>>

\* video = self.db.add_video(video_data)
PV_AddVideo(p) ==
    /\ w[p].pc = "pv_add_video"
    /\ \E storage_ok \in BOOLEAN :
        LET r == add_video(videos, w[p].video, storage_ok)
            f == FailInTry(stats[p], blob, "database_error", "database_error", today)
        IN  /\ Inject(storage_ok)
            /\ IF r.ok
               THEN /\ videos' = r.videos
                    /\ w' = [w EXCEPT ![p].pc = "pv_add_segments"]
                    /\ UNCHANGED <<stats, blob, h>>
               ELSE /\ w' = [w EXCEPT ![p] = Returned(p, f.ret)]
                    /\ h' = [h EXCEPT ![p].path = "database_error"]
                    /\ stats' = [stats EXCEPT ![p] = f.stats]
                    /\ blob' = f.blob
                    /\ UNCHANGED videos
    /\ UNCHANGED <<segments, guests, today, runs, found_total, sc>>

\* self.db.add_transcript_segments(video_id, transcript): it raises nothing.
PV_AddSegments(p) ==
    /\ w[p].pc = "pv_add_segments"
    /\ \E storage_ok \in BOOLEAN :
        /\ Inject(storage_ok)
        /\ segments' = add_transcript_segments(videos, segments, w[p].video.video_id,
                                               w[p].transcript, storage_ok)
        /\ h' = [h EXCEPT ![p].segments_lost = ~storage_ok]
    /\ w' = [w EXCEPT ![p].pc = "pv_quality"]
    /\ UNCHANGED <<videos, guests, blob, today, runs, found_total, stats, sc>>

\* A faulty variant: it ends process_video when a check found an issue.
AfterQualityBlocking(is_complete, is_valid) ==
    IF is_complete /\ is_valid THEN "mark_txn" ELSE "pv_ret"

\* `if not is_complete or not is_valid:` only logs warnings: the next
\* statement is the try around mark_video_processed either way.
AfterQuality(is_complete, is_valid) == "mark_txn"

\* The quality checks: they read the store, and what they find is logged.
\* When they raise, quality_check_error is recorded inside the handler.
PV_Quality(p) ==
    /\ w[p].pc = "pv_quality"
    /\ \E storage_ok \in BOOLEAN, now_year \in MetaNowYears :
        LET r == record_error(stats[p], "quality_check_error", TRUE, today)
            id == w[p].video.video_id
            c == check_transcript_completeness(videos, segments, id)
            m == validate_video_metadata(videos, id, now_year)
        IN  /\ Inject(storage_ok)
            /\ IF storage_ok
               THEN /\ w' = [w EXCEPT ![p].pc = AfterQuality(c.complete, m.valid)]
                    /\ h' = [h EXCEPT ![p].quality = "returned",
                                      ![p].is_complete = c.complete,
                                      ![p].is_valid = m.valid]
                    /\ UNCHANGED <<stats, blob>>
               ELSE /\ stats' = [stats EXCEPT ![p] = r.stats]
                    /\ blob' = IF r.raised THEN blob ELSE Dumped(r.stats)
                    /\ w' = [w EXCEPT ![p] = IF r.raised THEN Returned(p, "Raise")
                                             ELSE [@ EXCEPT !.pc = "mark_txn"]]
                    /\ h' = [h EXCEPT ![p].path = IF r.raised THEN "quality_raise" ELSE @,
                                      ![p].quality = "raised"]
    /\ UNCHANGED <<videos, segments, guests, today, runs, found_total, sc>>

--------------------------------------------------------------------------
(* mark_video_processed, and the end of process_video.                     *)

\* What one locked update of mark_video_processed does: it commits, it
\* raises (a storage error before the commit is through), or its re-read
\* inside the transaction does not show the flag.
MarkOutcomes == {"commit", "raise", "verify_fail"}

\* A faulty variant: it retries without a bound.
CanRetryMarkAlways(attempt) == TRUE

\* if attempt < max_retries - 1: time.sleep(retry_delay); continue
CanRetryMark(attempt) == attempt < max_retries - 1

\* `video and video.is_processed` of a re-read row.
IsMarked(row) == row # NoVideo /\ row.is_processed

\* One pass of the loop of mark_video_processed up to the commit.
Mark_Txn(p) ==
    /\ w[p].pc = "mark_txn"
    /\ \E outcome \in MarkOutcomes :
        LET id == w[p].video.video_id
            found == RowIndexes(videos, id) # {}
            again == outcome # "commit" /\ CanRetryMark(w[p].mark_attempt)
        IN  /\ Inject(outcome = "commit")
            /\ h' = [h EXCEPT ![p].marks = @ + 1,
                              ![p].videos0 = IF h[p].marks = 0 THEN videos ELSE @,
                              ![p].committed = @ \/ (outcome = "commit" /\ found),
                              ![p].path = IF (outcome = "commit" /\ found) \/ again
                                          THEN @ ELSE "mark_failed"]
            /\ IF outcome # "commit"
               THEN /\ w' = [w EXCEPT ![p] =
                                IF again THEN [@ EXCEPT !.mark_attempt = @ + 1]
                                ELSE Returned(p, "False")]
                    /\ UNCHANGED videos
               ELSE IF ~found
               THEN /\ w' = [w EXCEPT ![p] = Returned(p, "False")]
                    /\ UNCHANGED videos
               ELSE /\ videos' = SetProcessed(videos, id)
                    /\ w' = [w EXCEPT ![p].pc = "mark_final"]
    /\ UNCHANGED <<segments, guests, blob, today, runs, found_total, stats, sc>>

\* final_video = self.get_video(video_id) after the commit: it decides what
\* mark_video_processed returns; when it raises, the handler retries.
Mark_Final(p) ==
    /\ w[p].pc = "mark_final"
    /\ \E read_ok \in BOOLEAN :
        LET final == get_video(videos, w[p].video.video_id)
            again == ~read_ok /\ CanRetryMark(w[p].mark_attempt)
        IN  /\ Inject(read_ok)
            /\ IF ~read_ok
               THEN /\ w' = [w EXCEPT ![p] =
                                IF again
                                THEN [@ EXCEPT !.mark_attempt = @ + 1, !.pc = "mark_txn"]
                                ELSE Returned(p, "False")]
                    /\ h' = [h EXCEPT ![p].path = IF again THEN @ ELSE "mark_failed"]
               ELSE IF IsMarked(final)
               THEN /\ w' = [w EXCEPT ![p].pc = "pv_verify"]
                    /\ h' = [h EXCEPT ![p].marked = TRUE]
               ELSE /\ w' = [w EXCEPT ![p] = Returned(p, "False")]
                    /\ h' = [h EXCEPT ![p].path = "mark_failed"]
    /\ UNCHANGED <<videos, segments, guests, blob, today, runs, found_total, stats, sc>>

\* processed_video = self.db.get_video(video_id) in process_video.
PV_Verify(p) ==
    /\ w[p].pc = "pv_verify"
    /\ \E read_ok \in BOOLEAN :
        LET row == get_video(videos, w[p].video.video_id)
            f == IF ~read_ok
                 THEN Fail(stats[p], blob, "status_update_error", today)
                 ELSE FailInTry(stats[p], blob, "status_verification_error",
                                "status_update_error", today)
        IN  /\ Inject(read_ok)
            /\ IF read_ok /\ IsMarked(row)
               THEN /\ w' = [w EXCEPT ![p].pc = "pv_stats"]
                    /\ h' = [h EXCEPT ![p].reread = TRUE]
                    /\ UNCHANGED <<stats, blob>>
               ELSE /\ w' = [w EXCEPT ![p] = Returned(p, f.ret)]
                    /\ h' = [h EXCEPT ![p].path = "verify_failed"]
                    /\ stats' = [stats EXCEPT ![p] = f.stats]
                    /\ blob' = f.blob
    /\ UNCHANGED <<videos, segments, guests, today, runs, found_total, sc>>

\* self.monitor.update_video_processed(video_id, success=True, ...) and
\* `return True`; an exception runs the handler of the try.
PV_Stats(p) ==
    /\ w[p].pc = "pv_stats"
    /\ \E read_ok \in BOOLEAN, processing_time \in ProcessingTimes :
        LET u == update_video_processed(stats[p],
                                        get_video(videos, w[p].video.video_id),
                                        TRUE, Len(w[p].transcript),
                                        processing_time, today)
            f == IF ~read_ok
                 THEN Fail(stats[p], blob, "status_update_error", today)
                 ELSE Fail(u.stats, blob, "status_update_error", today)
        IN  /\ Inject(read_ok)
            /\ IF read_ok /\ ~u.raised
               THEN /\ stats' = [stats EXCEPT ![p] = u.stats]
                    /\ blob' = IF u.saved THEN Dumped(u.stats) ELSE blob
                    /\ w' = [w EXCEPT ![p] = Returned(p, "True")]
                    /\ h' = [h EXCEPT ![p].path = "processed"]
               ELSE /\ stats' = [stats EXCEPT ![p] = f.stats]
                    /\ blob' = f.blob
                    /\ w' = [w EXCEPT ![p] = Returned(p, f.ret)]
                    /\ h' = [h EXCEPT ![p].path = "stats_failed"]
    /\ UNCHANGED <<videos, segments, guests, today, runs, found_total, sc>>

\* Back in the loop of process_videos: the handler of an exception records
\* processing_error; a KeyError in it ends process_videos.
PV_Return(p) ==
    /\ w[p].pc = "pv_ret"
    /\ LET r == record_error(stats[p], "processing_error", TRUE, today)
           back == [w[p] EXCEPT !.video = NoVideoData,
                                !.transcript = EmptyTranscript,
                                !.attempt = 0, !.mark_attempt = 0, !.ret = "none"]
       IN  IF w[p].ret # "Raise"
           THEN /\ w' = [w EXCEPT ![p] = [back EXCEPT !.pc = "loop"]]
                /\ UNCHANGED <<stats, blob>>
           ELSE /\ stats' = [stats EXCEPT ![p] = r.stats]
                /\ blob' = IF r.raised THEN blob ELSE Dumped(r.stats)
                /\ w' = [w EXCEPT ![p] =
                            [back EXCEPT !.pc = IF r.raised THEN "aborted" ELSE "loop"]]
    /\ h' = [h EXCEPT ![p] = NoCall]
    /\ UNCHANGED <<videos, segments, guests, today, runs, found_total, faults, sc>>

\* A new process: JRETranscriptFetcher(), whose monitor loads the stats
\* file, on the same day or a later one.
Construct(p) ==
    /\ w[p].pc \in {"done", "aborted"}
    /\ runs < MaxRuns
    /\ runs' = runs + 1
    /\ \E day \in {today, today + 1} : day <= MaxDay /\ today' = day
    /\ stats' = [stats EXCEPT ![p] = _load_stats(blob)]
    /\ w' = [w EXCEPT ![p] = NewWorker]
    /\ h' = [h EXCEPT ![p] = NoCall]
    /\ UNCHANGED <<videos, segments, guests, blob, found_total, faults, sc>>

--------------------------------------------------------------------------
(* Inputs of the scoring runs.                                             *)

ScoreTitles ==
    {"JRE #1234 - no number here",
     "Trump and Biden on IMMIGRATION",
     "Identity Politics with Bernie Sanders #1500",
     "Warehouse stories"}

ScoreDescriptions ==
    {"",
     "A talk about comedy and hunting",
     "Foreign Policy, free speech and the Senate",
     "woke Democrats, Republican voters, gun control, taxation, Obama"}

ScoreIdle == [title |-> "", description |-> "", text |-> "",
              score |-> 0, matching_categories |-> <<>>,
              visited |-> {}, state |-> "idle"]

\* The store, the stats file and the monitors before anything ran.
PipelineInit ==
    /\ videos = <<>>
    /\ segments = <<>>
    /\ guests = {}
    /\ blob = NoFile
    /\ today = 1
    /\ runs = 1
    /\ found_total = 0
    /\ faults = 0
    /\ stats = [p \in Procs |-> _init_stats]
    /\ h = [p \in Procs |-> NoCall]

\* A call of calculate_political_score(title, description) begins.
ScoreInit ==
    /\ PipelineInit
    /\ w = [p \in Procs |-> Off]
    /\ \E t \in ScoreTitles, d \in ScoreDescriptions :
           sc = [title |-> t, description |-> d, text |-> ScoreText(t, d),
                 score |-> 0, matching_categories |-> <<>>,
                 visited |-> {}, state |-> "loop"]

\* The loop body for one category not yet visited, in any order.
ScoreVisit ==
    /\ sc.state = "loop"
    /\ \E c \in Categories \ sc.visited :
        LET acc == Accumulate([score |-> sc.score,
                               matching_categories |-> sc.matching_categories],
                              c, CategoryMatches(c, sc.text))
        IN  sc' = [sc EXCEPT !.score = acc.score,
                             !.matching_categories = acc.matching_categories,
                             !.visited = @ \cup {c}]
    /\ UNCHANGED pipelineVars

\* The return statement.
ScoreReturn ==
    /\ sc.state = "loop"
    /\ sc.visited = Categories
    /\ LET r == ClampScore([score |-> sc.score,
                            matching_categories |-> sc.matching_categories])
       IN  sc' = [sc EXCEPT !.score = r.score, !.state = "returned"]
    /\ UNCHANGED pipelineVars

ScoreNext == ScoreVisit \/ ScoreReturn

SpecScore == ScoreInit /\ [][ScoreNext]_vars

--------------------------------------------------------------------------
(* The collection runs of one process, one after the other.                *)

Init ==
    /\ PipelineInit
    /\ w = [p \in Procs |-> IF p = 1 THEN NewWorker ELSE Off]
    /\ sc = ScoreIdle

Next ==
    \E p \in Procs :
        \/ SearchKeyword(p)
        \/ BeginVideo(p)
        \/ Summary(p)
        \/ PV_Start(p)
        \/ PV_Delete(p)
        \/ PV_Fetch(p)
        \/ PV_AddVideo(p)
        \/ PV_AddSegments(p)
        \/ PV_Quality(p)
        \/ Mark_Txn(p)
        \/ Mark_Final(p)
        \/ PV_Verify(p)
        \/ PV_Stats(p)
        \/ PV_Return(p)
        \/ Construct(p)

Spec == Init /\ [][Next]_vars

\* The process runs on: a statement that can be executed is executed.
FairSpec == Spec /\ WF_vars(Next)

--------------------------------------------------------------------------
(* Properties of calculate_political_score, checked under SpecScore.       *)

\* Every keyword of the table that occurs in the text, counted over the
\* whole table at once.
KeywordHits(text) ==
    {kc \in UNION {{<<c, i>> : i \in DOMAIN political_keywords[c]} : c \in Categories} :
        Contains(Lower(political_keywords[kc[1]][kc[2]]), text)}

HitCategories(text) == {kc[1] : kc \in KeywordHits(text)}

IsDictOrder(cats) ==
    \A i, j \in DOMAIN cats :
        i < j =>
            \E a, b \in DOMAIN CategoryOrder :
                a < b /\ CategoryOrder[a] = cats[i] /\ CategoryOrder[b] = cats[j]

\* C10: whatever the order in which the categories are visited, the score
\* returned is min(1.0, 0.2 * M), M the number of keywords of the five
\* categories that occur in the lower-cased "title description"; the
\* categories returned are exactly those with a match, each once; with no
\* match the score is 0.0 and no category is returned.
C10_ScoreIsClampedSum ==
    sc.state = "returned" =>
        LET text == Lower(sc.title \o " " \o sc.description)
            M == Cardinality(KeywordHits(text))
        IN  /\ sc.score = Min(MaxScore, MatchWeight * M)
            /\ Range(sc.matching_categories) = HitCategories(text)
            /\ Len(sc.matching_categories) = Cardinality(HitCategories(text))
            /\ M = 0 => sc.score = 0 /\ sc.matching_categories = <<>>

\* C10 witness: a call returned a score strictly between 0 and the cap, of
\* several categories visited in another order than that of the table.
C10_Witness ==
    /\ sc.state = "returned"
    /\ sc.score > 0
    /\ sc.score < MaxScore
    /\ Len(sc.matching_categories) >= 2
    /\ ~IsDictOrder(sc.matching_categories)

--------------------------------------------------------------------------
(* Properties of the collection runs, checked under Spec.                  *)

AfterInsert(p) ==
    w[p].pc \in {"pv_quality", "mark_txn", "mark_final", "pv_verify",
                 "pv_stats", "pv_ret"}

StoredProcessed(id) ==
    \E i \in DOMAIN videos : videos[i].video_id = id /\ videos[i].is_processed

StoredTexts(id) ==
    LET rows == get_transcript_segments(segments, id)
    IN  [i \in DOMAIN rows |-> rows[i].text]

TranscriptTexts(transcript) == [i \in DOMAIN transcript |-> transcript[i].text]

\* C1: a process_video call for a video stored with is_processed = TRUE,
\* once the store has answered the lookup, returns True in that very step
\* and leaves the rows, the segments, the flag, the stats and the stats file
\* as they were, without a transcript fetch; so does every repeated call.
C1_ProcessedVideoIsSkipped ==
    [][\A p \in Procs :
          (/\ w[p].pc = "pv_start"
           /\ StoredProcessed(w[p].video.video_id)
           /\ w'[p].pc # "pv_start"
           /\ h'[p].path # "raise")
          => /\ w'[p].pc = "pv_ret"
             /\ w'[p].ret = "True"
             /\ h'[p].calls = 0
             /\ UNCHANGED <<videos, segments, stats, blob>>]_vars

\* C1 witness: a call for a processed video has returned, in a second run.
C1_Witness ==
    \E p \in Procs :
        /\ w[p].pc = "pv_ret"
        /\ h[p].path = "skip"
        /\ runs = 2
        /\ StoredProcessed(w[p].video.video_id)
        /\ Len(get_transcript_segments(segments, w[p].video.video_id)) > 0

\* C2: when process_video finds the video stored unprocessed and then the
\* fetch, the row insert and the segment insert succeed, the segments stored
\* for the id are exactly the transcript just fetched, in number too, none
\* of the earlier attempt among them.
C2_ReprocessReplacesSegments ==
    \A p \in Procs :
        (/\ AfterInsert(p)
         /\ h[p].existed = "unprocessed"
         /\ h[p].path \notin {"no_transcript", "database_error"}
         /\ ~h[p].segments_lost)
        => /\ StoredTexts(w[p].video.video_id) = TranscriptTexts(h[p].fetched)
           /\ Len(get_transcript_segments(segments, w[p].video.video_id))
                  = Len(h[p].fetched)

\* C2 witness: a reprocessing call returned True for a video that had
\* segments of another length from the earlier attempt.
C2_Witness ==
    \E p \in Procs :
        /\ w[p].pc = "pv_ret"
        /\ w[p].ret = "True"
        /\ h[p].existed = "unprocessed"
        /\ h[p].segments0 > 0
        /\ h[p].segments0 # Len(h[p].fetched)

\* The score of a catalogue video, from the keywords that occur in its
\* lower-cased title and description.
CatalogueScore(id) ==
    Min(MaxScore,
        MatchWeight * Cardinality(KeywordHits(Lower(Details[id].title \o " "
                                                     \o Details[id].description))))

LowScoreIds == {id \in VideoIds : CatalogueScore(id) < ScoreThreshold}

\* C3: a video whose political score is below 0.3, one keyword match
\* included, is dropped at discovery: it is never in the list handed to
\* process_videos, never the video of a process_video call, and the store
\* holds no row and no segment of it, during the run and after it.
C3_LowScoreNeverPersisted ==
    \A id \in LowScoreIds :
        /\ \A i \in DOMAIN videos : videos[i].video_id # id
        /\ \A i \in DOMAIN segments : segments[i].video_id # id
        /\ \A p \in Procs :
            /\ w[p].video.video_id # id
            /\ \A i \in DOMAIN w[p].found : w[p].found[i].video_id # id
            /\ \A i \in DOMAIN w[p].queue : w[p].queue[i].video_id # id

\* C3 witness: a run that discovered a video with exactly one keyword match
\* and another, relevant one has reached its summary with a row stored.
C3_Witness ==
    \E p \in Procs, id \in LowScoreIds :
        /\ CatalogueScore(id) = MatchWeight
        /\ id \in w[p].rejected
        /\ w[p].pc = "done"
        /\ w[p].summary
        /\ videos # <<>>

\* C4, as the spec states it: a collection run ends only with every
\* discovered video handed to process_video and, when there was any, with
\* the summary step done, whatever process_video did and whatever the
\* monitor was loaded from.
C4_BatchNeverAborted ==
    \A p \in Procs :
        w[p].pc \in {"done", "aborted"} =>
            /\ w[p].queue = <<>>
            /\ w[p].found # <<>> => w[p].summary

\* C5, as the spec states it: when a process_video call returns False, some
\* error-type counter of the monitor is higher than when the call began.
C5_FailureIsCounted ==
    \A p \in Procs :
        (w[p].pc = "pv_ret" /\ w[p].ret = "False")
            => ErrorTotal(stats[p]) > h[p].errors0

\* C6, as the spec states it: after a failed (rolled back) insert of the
\* transcript segments, process_video does not go on to mark the video
\* processed, and it returns False with an error counted.
C6_SegmentFailureEndsVideo ==
    \A p \in Procs :
        h[p].segments_lost =>
            /\ w[p].pc \notin {"mark_txn", "mark_final", "pv_verify", "pv_stats"}
            /\ w[p].pc = "pv_ret" =>
                   w[p].ret = "False" /\ ErrorTotal(stats[p]) > h[p].errors0

\* C7, as the spec states it: a video whose row has is_processed = TRUE has
\* at least one transcript segment stored.
C7_ProcessedHasSegments ==
    \A i \in DOMAIN videos :
        videos[i].is_processed =>
            Len(get_transcript_segments(segments, videos[i].video_id)) >= 1

\* C8: one invocation of get_transcript_with_backoff calls the transcript
\* API at most 3 times; it calls again only after a rate-limit error; an
\* error of another class ends it at once with no transcript; so do 3
\* rate-limit errors in a row; the first answer is the transcript returned.
C8_BoundedRateLimitRetry ==
    \A p \in Procs :
        /\ h[p].calls <= 3
        /\ (w[p].pc = "pv_fetch" /\ h[p].calls > 0)
               => h[p].last = "rate_limited" /\ h[p].calls < 3
        /\ h[p].last = "error"
               => /\ w[p].pc = "pv_ret"
                  /\ h[p].path = "no_transcript"
                  /\ w[p].transcript = EmptyTranscript
        /\ (h[p].last = "rate_limited" /\ h[p].calls = 3)
               => /\ w[p].pc = "pv_ret"
                  /\ h[p].path = "no_transcript"
                  /\ w[p].transcript = EmptyTranscript
        /\ h[p].last = "ok"
               => /\ w[p].pc # "pv_fetch"
                  /\ w[p].transcript = h[p].fetched

\* C8 witness: three rate-limit errors in a row ended a fetch.
C8_Witness ==
    \E p \in Procs :
        /\ h[p].calls = 3
        /\ h[p].last = "rate_limited"
        /\ w[p].pc = "pv_ret"

\* C9: mark_video_processed returns True only with the update committed and
\* the row read back processed after the commit; one call makes at most 3
\* attempts; process_video returns True only with the row processed in its
\* own re-read (or in its first lookup, when it skips).
C9_MarkIsVerified ==
    \A p \in Procs :
        /\ h[p].marks <= 3
        /\ w[p].pc \in {"pv_verify", "pv_stats"}
               => /\ h[p].committed
                  /\ h[p].marked
                  /\ StoredProcessed(w[p].video.video_id)
        /\ (w[p].pc = "pv_ret" /\ w[p].ret = "True")
               => /\ StoredProcessed(w[p].video.video_id)
                  /\ h[p].path # "skip"
                         => h[p].committed /\ h[p].marked /\ h[p].reread

\* C9 witness: process_video returned True after the third attempt of
\* mark_video_processed.
C9_Witness ==
    \E p \in Procs :
        /\ w[p].pc = "pv_ret"
        /\ w[p].ret = "True"
        /\ h[p].path = "processed"
        /\ h[p].marks = 3

--------------------------------------------------------------------------
(* calculate_political_score as a function of the match counts: the loop   *)
(* of lines 141-147 run on the number of matches of each category.         *)

\* Matches of one category in the runs below.
MaxMatches == 3

MatchCounts == [Categories -> 0..MaxMatches]

RECURSIVE CountLoop(_, _, _)
CountLoop(acc, order, counts) ==
    IF order = <<>> THEN acc
    ELSE CountLoop(Accumulate(acc, Head(order), counts[Head(order)]),
                   Tail(order), counts)

\* The score the loop and the return statement give for the counts.
ScoreOfCounts(counts) ==
    ClampScore(CountLoop([score |-> 0, matching_categories |-> <<>>],
                         CategoryOrder, counts)).score

\* A call whose text has counts[c] keywords of category c begins.
CountsInit ==
    /\ PipelineInit
    /\ w = [p \in Procs |-> Off]
    /\ \E counts \in MatchCounts :
           sc = [counts |-> counts, score |-> 0, matching_categories |-> <<>>,
                 visited |-> {}, state |-> "loop"]

\* The loop body for the next category of the table.
CountsVisit ==
    /\ sc.state = "loop"
    /\ \E i \in DOMAIN CategoryOrder :
        LET c == CategoryOrder[i]
            acc == Accumulate([score |-> sc.score,
                               matching_categories |-> sc.matching_categories],
                              c, sc.counts[c])
        IN  /\ c \notin sc.visited
            /\ \A j \in 1..(i - 1) : CategoryOrder[j] \in sc.visited
            /\ sc' = [sc EXCEPT !.score = acc.score,
                                !.matching_categories = acc.matching_categories,
                                !.visited = @ \cup {c}]
    /\ UNCHANGED pipelineVars

\* The return statement.
CountsReturn ==
    /\ sc.state = "loop"
    /\ sc.visited = Categories
    /\ LET r == ClampScore([score |-> sc.score,
                            matching_categories |-> sc.matching_categories])
       IN  sc' = [sc EXCEPT !.score = r.score, !.state = "returned"]
    /\ UNCHANGED pipelineVars

CountsNext == CountsVisit \/ CountsReturn

SpecCounts == CountsInit /\ [][CountsNext]_vars

TotalMatches(counts) == MapSum(counts, DOMAIN counts)

\* C11: the score returned lies in [0, 1]; it is 1.0 when the text has 5
\* matches or more; and one more match in any category never gives a lower
\* score.
C11_ScoreMonotoneAndClamped ==
    sc.state = "returned" =>
        /\ sc.score >= 0
        /\ sc.score <= 10
        /\ TotalMatches(sc.counts) >= 5 => sc.score = 10
        /\ \A c \in Categories :
               ScoreOfCounts([sc.counts EXCEPT ![c] = @ + 1]) >= sc.score

\* C11 witness: a call with more than 5 matches over several categories
\* returned the clamped score.
C11_Witness ==
    /\ sc.state = "returned"
    /\ TotalMatches(sc.counts) > 5
    /\ Len(sc.matching_categories) >= 2
    /\ sc.score = 10

--------------------------------------------------------------------------
(* extract_episode_number on titles put together from known pieces.        *)

\* Pieces a title is made of.
MaxTitleParts == 3

\* A piece, the pattern it is an occurrence of (0: of none; 1, 2, 3: the
\* index in the pattern list) and the number it carries.
TitleParts ==
    <<[text |-> "JRE #1234", kind |-> 1, number |-> 1234],
      [text |-> "#56 live", kind |-> 1, number |-> 56],
      [text |-> "Episode 789", kind |-> 2, number |-> 789],
      [text |-> "JRE 1500", kind |-> 3, number |-> 1500],
      [text |-> "JRE MMA Show", kind |-> 0, number |-> 0],
      [text |-> "episode 12", kind |-> 0, number |-> 0],
      [text |-> "Bernie Sanders", kind |-> 0, number |-> 0],
      [text |-> "2020", kind |-> 0, number |-> 0]>>

TitleSeparator == " - "

RECURSIVE JoinParts(_)
JoinParts(parts) ==
    IF parts = <<>> THEN ""
    ELSE IF Len(parts) = 1 THEN TitleParts[parts[1]].text
    ELSE TitleParts[parts[1]].text \o TitleSeparator \o JoinParts(Tail(parts))

EpisodeIdle(parts) ==
    [parts |-> parts, title |-> JoinParts(parts), result |-> NoEpisode,
     state |-> "call"]

\* A call of extract_episode_number(title) begins.
EpisodeInit ==
    /\ PipelineInit
    /\ w = [p \in Procs |-> Off]
    /\ \E parts \in [1..MaxTitleParts -> DOMAIN TitleParts] : sc = EpisodeIdle(parts)

\* The call returns.
EpisodeReturn ==
    /\ sc.state = "call"
    /\ sc' = [sc EXCEPT !.result = extract_episode_number(sc.title),
                        !.state = "returned"]
    /\ UNCHANGED pipelineVars

SpecEpisode == EpisodeInit /\ [][EpisodeReturn]_vars

\* The pieces of the title that are an occurrence of a pattern: position
\* and pattern index.
PatternPieces(parts) == {i \in DOMAIN parts : TitleParts[parts[i]].kind > 0}

\* C12: the number returned is that of the leftmost occurrence of the first
\* pattern, in the order #, Episode, JRE, that occurs in the title at all,
\* wherever the occurrences of the later patterns stand; without an
\* occurrence nothing is returned.
C12_FirstPatternWins ==
    sc.state = "returned" =>
        LET occ == PatternPieces(sc.parts)
        IN  IF occ = {} THEN sc.result = NoEpisode
            ELSE \E i \in occ :
                    /\ \A j \in occ :
                          \/ TitleParts[sc.parts[j]].kind > TitleParts[sc.parts[i]].kind
                          \/ (TitleParts[sc.parts[j]].kind = TitleParts[sc.parts[i]].kind
                              /\ i <= j)
                    /\ sc.result = TitleParts[sc.parts[i]].number

\* C12 witness: the title has an Episode occurrence before a # occurrence,
\* and the number of the latter was returned.
C12_Witness ==
    /\ sc.state = "returned"
    /\ TitleParts[sc.parts[1]].kind = 2
    /\ TitleParts[sc.parts[2]].kind = 0
    /\ TitleParts[sc.parts[3]].kind = 1
    /\ sc.result = TitleParts[sc.parts[3]].number

--------------------------------------------------------------------------
(* check_transcript_completeness on stores built with the store's own      *)
(* operations: a transcript of evenly spaced, distinct lines, with gaps,   *)
(* a short line and a repeated line put in at chosen places.               *)

\* Segments of the longest transcript.
MaxSegments == 15

\* The last place a defect is put in.
MaxDefectPosition == 3

SegmentSizes == {0, 1, 2, 3, MinSegmentCount - 1, MinSegmentCount, MaxSegments}

GapSizes == {GapThreshold, GapThreshold + 1, 8}

ShortTexts == {" ok ", "fiver"}

BaseText(k) == "line " \o SubSeq(LowerLetters, k, k)

QualityInputs ==
    [n : SegmentSizes,
     exists : BOOLEAN,
     gaps : SUBSET (1..(MaxDefectPosition - 1)),
     gap_size : GapSizes,
     short : 0..MaxDefectPosition,
     short_text : ShortTexts,
     repeated : {0} \cup 2..MaxDefectPosition,
     reversed : BOOLEAN]

\* The transcript of an input: lines of 3 seconds, 1 second apart, but for
\* the places in.gaps.
QualityTranscript(in) ==
    [k \in 1..in.n |->
        [text |-> IF k = in.short THEN in.short_text
                  ELSE IF k = in.repeated THEN " " \o BaseText(1) \o " "
                  ELSE BaseText(k),
         start |-> 4 * (k - 1)
                   + (in.gap_size - 1) * Cardinality({g \in in.gaps : g < k}),
         duration |-> 3]]

Reverse(seq) == [k \in 1..Len(seq) |-> seq[Len(seq) + 1 - k]]

\* The store: another video with a segment of its own, then, when it
\* exists, the video with its transcript, bulk-inserted as handed over.
QualityStore(in) ==
    LET other == add_video(<<>>, VideoInfo["v3"], TRUE).videos
        vs == IF in.exists THEN add_video(other, VideoInfo["v1"], TRUE).videos
              ELSE other
        segs0 == add_transcript_segments(vs, <<>>, "v3", TranscriptB, TRUE)
        transcript == IF in.reversed THEN Reverse(QualityTranscript(in))
                      ELSE QualityTranscript(in)
    IN  [videos |-> vs,
         segments |-> add_transcript_segments(vs, segs0, "v1", transcript, TRUE)]

\* A call of check_transcript_completeness("v1") begins.
QualityInit ==
    /\ guests = {}
    /\ blob = NoFile
    /\ today = 1
    /\ runs = 1
    /\ found_total = 0
    /\ faults = 0
    /\ stats = [p \in Procs |-> _init_stats]
    /\ h = [p \in Procs |-> NoCall]
    /\ w = [p \in Procs |-> Off]
    /\ \E in \in QualityInputs :
        /\ in.short = 0 => in.short_text = " ok "
        /\ in.gaps = {} => in.gap_size = GapThreshold
        /\ videos = QualityStore(in).videos
        /\ segments = QualityStore(in).segments
    /\ sc = [video_id |-> "v1", state |-> "call", complete |-> FALSE,
             issues |-> EmptyMap]

\* The call returns.
QualityReturn ==
    /\ sc.state = "call"
    /\ LET r == check_transcript_completeness(videos, segments, sc.video_id)
       IN  sc' = [sc EXCEPT !.complete = r.complete, !.issues = r.issues,
                            !.state = "returned"]
    /\ UNCHANGED pipelineVars

SpecQuality == QualityInit /\ [][QualityReturn]_vars

\* The rows the store holds for the video of the call.
CheckedRows == {i \in DOMAIN segments : segments[i].video_id = sc.video_id}

VideoStored == \E i \in DOMAIN videos : videos[i].video_id = sc.video_id

\* Rows i and j follow each other in start-time order.
AdjacentRows(i, j) ==
    /\ segments[i].start_time < segments[j].start_time
    /\ ~\E k \in CheckedRows :
           /\ segments[i].start_time < segments[k].start_time
           /\ segments[k].start_time < segments[j].start_time

\* The adjacent pairs more than 5 seconds apart, as (end, next start).
OffendingGaps ==
    {<<segments[i].start_time + segments[i].duration, segments[j].start_time>> :
        <<i, j>> \in {ij \in CheckedRows \X CheckedRows :
                        /\ AdjacentRows(ij[1], ij[2])
                        /\ segments[ij[2]].start_time
                             - (segments[ij[1]].start_time + segments[ij[1]].duration) > 5}}

SomeShortText == \E i \in CheckedRows : Len(Strip(segments[i].text)) < 5

SomeRepeatedText ==
    \E i, j \in CheckedRows :
        i # j /\ Strip(segments[i].text) = Strip(segments[j].text)

\* C13: for a stored video with segments, segment_count is set iff there
\* are fewer than 10 segments, time_gaps iff some adjacent gap exceeds 5 s,
\* short_segments iff some trimmed text has fewer than 5 characters,
\* duplicates iff some trimmed text occurs twice, no other key is set, and
\* complete is true iff none is; a missing video or one without segments
\* gives complete = false and the error issue alone.
C13_IssueKeys ==
    sc.state = "returned" =>
        IF ~VideoStored \/ CheckedRows = {}
        THEN /\ ~sc.complete
             /\ DOMAIN sc.issues = {"error"}
             /\ sc.issues.error = (IF VideoStored THEN "No transcript segments found"
                                   ELSE "Video not found")
        ELSE /\ "segment_count" \in DOMAIN sc.issues <=> Cardinality(CheckedRows) < 10
             /\ "time_gaps" \in DOMAIN sc.issues <=> OffendingGaps # {}
             /\ "short_segments" \in DOMAIN sc.issues <=> SomeShortText
             /\ "duplicates" \in DOMAIN sc.issues <=> SomeRepeatedText
             /\ DOMAIN sc.issues \subseteq
                    {"segment_count", "time_gaps", "short_segments", "duplicates"}
             /\ sc.complete <=> DOMAIN sc.issues = {}

\* C13 witness: 15 well-spaced, distinct segments of 5 characters or more,
\* stored out of start order, were found complete with no issue.
C13_Witness ==
    /\ sc.state = "returned"
    /\ Cardinality(CheckedRows) = 15
    /\ \E i, j \in CheckedRows : i < j /\ segments[i].start_time > segments[j].start_time
    /\ \E i \in CheckedRows : Len(Strip(segments[i].text)) = 5
    /\ sc.complete
    /\ DOMAIN sc.issues = {}

\* C14: time_gaps holds exactly the adjacent pairs, in start-time order,
\* whose gap is more than 5 seconds, each once, in that order; it is not set
\* when there is none, a gap of exactly 5 seconds being none.
C14_TimeGapsExact ==
    (sc.state = "returned" /\ VideoStored /\ CheckedRows # {}) =>
        LET gaps == IF "time_gaps" \in DOMAIN sc.issues THEN sc.issues.time_gaps
                    ELSE <<>>
        IN  /\ Range(gaps) = OffendingGaps
            /\ Len(gaps) = Cardinality(OffendingGaps)
            /\ \A a, b \in DOMAIN gaps : a < b => gaps[a][2] < gaps[b][2]
            /\ ("time_gaps" \in DOMAIN sc.issues) => gaps # <<>>

\* C14 witness: a video stored out of start order whose only defect is one
\* gap of 8 seconds got that gap, and no other issue.
C14_Witness ==
    /\ sc.state = "returned"
    /\ Cardinality(CheckedRows) >= 10
    /\ \E i, j \in CheckedRows : i < j /\ segments[i].start_time > segments[j].start_time
    /\ DOMAIN sc.issues = {"time_gaps"}
    /\ Len(sc.issues.time_gaps) = 1
    /\ sc.issues.time_gaps[1][2] - sc.issues.time_gaps[1][1] = 8

--------------------------------------------------------------------------
(* DataQualityChecker.check_duplicate_videos                               *)

\* The characters of the titles, in code point order.
Alphabet ==
    " #-0123456789ABCDEFGHIJKLMNOPQRSTUVWXYZabcdefghijklmnopqrstuvwxyz"

CharCode(c) == CHOOSE i \in 1..Len(Alphabet) : SubSeq(Alphabet, i, i) = c

RECURSIVE StrLess(_, _)
StrLess(a, b) ==
    IF Len(a) = 0 THEN Len(b) > 0
    ELSE IF Len(b) = 0 THEN FALSE
    ELSE IF SubSeq(a, 1, 1) = SubSeq(b, 1, 1)
         THEN StrLess(SubSeq(a, 2, Len(a)), SubSeq(b, 2, Len(b)))
         ELSE CharCode(SubSeq(a, 1, 1)) < CharCode(SubSeq(b, 1, 1))

\* session.query(Video).order_by(Video.title).all(); rows of one title
\* come as the table holds them.
VideosByTitle(vs) ==
    LET before(i, j) == \/ StrLess(vs[i].title, vs[j].title)
                        \/ (vs[i].title = vs[j].title /\ i < j)
    IN  [k \in 1..Len(vs) |->
            vs[CHOOSE i \in DOMAIN vs :
                   Cardinality({j \in DOMAIN vs : before(j, i)}) = k - 1]]

\* A faulty variant: it takes the difference of the episode numbers first.
SimilarEpisodeFirst(current, next_video) ==
    IF current.episode_number = NoEpisode \/ next_video.episode_number = NoEpisode
    THEN "TypeError"
    ELSE IF \/ Lower(current.title) = Lower(next_video.title)
            \/ current.episode_number - next_video.episode_number \in -1..1
    THEN "similar" ELSE "different"

\* current.title.lower() == next_video.title.lower() or
\* abs(current.episode_number - next_video.episode_number) <= 1:
\* the difference is taken only when the titles differ, and it raises
\* TypeError on an episode number that is None.
Similar(current, next_video) ==
    IF Lower(current.title) = Lower(next_video.title) THEN "similar"
    ELSE IF current.episode_number = NoEpisode \/ next_video.episode_number = NoEpisode
    THEN "TypeError"
    ELSE IF current.episode_number - next_video.episode_number \in -1..1
    THEN "similar" ELSE "different"

DuplicateGroup(group) == [videos |-> group, reason |-> "similar_titles"]

\* if len(current_group) > 1: duplicates.append({...})
CloseGroup(duplicates, group) ==
    IF Len(group) > 1 THEN Append(duplicates, DuplicateGroup(group)) ELSE duplicates

\* The loop over range(len(videos) - 1) from i on, and the check of the
\* last group.
RECURSIVE DuplicateLoop(_, _, _, _)
DuplicateLoop(rows, i, group, duplicates) ==
    IF i >= Len(rows)
    THEN [raised |-> FALSE, duplicates |-> CloseGroup(duplicates, group)]
    ELSE LET verdict == Similar(rows[i], rows[i + 1])
         IN  IF verdict = "TypeError"
             THEN [raised |-> TRUE, duplicates |-> <<>>]
             ELSE IF verdict = "similar"
             THEN DuplicateLoop(rows, i + 1,
                                (IF group = <<>> THEN <<rows[i]>> ELSE group)
                                    \o <<rows[i + 1]>>,
                                duplicates)
             ELSE DuplicateLoop(rows, i + 1, <<>>, CloseGroup(duplicates, group))

check_duplicate_videos(vs) == DuplicateLoop(VideosByTitle(vs), 1, <<>>, <<>>)

--------------------------------------------------------------------------
(* check_duplicate_videos on small stores.                                 *)

\* Videos in the store.
MaxStoredVideos == 4

DupTitles == {"Politics Today", "POLITICS TODAY", "Another Show"}

DupEpisodes == {NoEpisode, 1, 2, 5}

DupVideoIds == <<"a", "b", "c", "d">>

DupVideoData(k, title, episode) ==
    [video_id |-> DupVideoIds[k], title |-> title,
     channel_title |-> "PowerfulJRE", year |-> 2020,
     political_score |-> ScoreThreshold, political_categories |-> <<"core_politics">>,
     episode_number |-> episode, guest |-> NoGuest]

\* The table after the videos were added one by one.
RECURSIVE DupStore(_, _)
DupStore(titles, episodes) ==
    IF titles = <<>> THEN <<>>
    ELSE LET k == Len(titles)
         IN  add_video(DupStore(SubSeq(titles, 1, k - 1), SubSeq(episodes, 1, k - 1)),
                       DupVideoData(k, titles[k], episodes[k]), TRUE).videos

\* A call of check_duplicate_videos() begins.
DuplicatesInit ==
    /\ segments = <<>>
    /\ guests = {}
    /\ blob = NoFile
    /\ today = 1
    /\ runs = 1
    /\ found_total = 0
    /\ faults = 0
    /\ stats = [p \in Procs |-> _init_stats]
    /\ h = [p \in Procs |-> NoCall]
    /\ w = [p \in Procs |-> Off]
    /\ \E n \in 0..MaxStoredVideos :
        \E titles \in [1..n -> DupTitles], episodes \in [1..n -> DupEpisodes] :
            videos = DupStore(titles, episodes)
    /\ sc = [state |-> "call", raised |-> FALSE, duplicates |-> <<>>]

\* The call returns, or raises.
DuplicatesReturn ==
    /\ sc.state = "call"
    /\ LET r == check_duplicate_videos(videos)
       IN  sc' = [sc EXCEPT !.raised = r.raised, !.duplicates = r.duplicates,
                            !.state = "returned"]
    /\ UNCHANGED pipelineVars

SpecDuplicates == DuplicatesInit /\ [][DuplicatesReturn]_vars

\* C15: on a store of two videos whose titles are equal ignoring case the
\* call returns one group, of these two videos, whatever their episode
\* numbers are, absent ones included.
C15_EqualTitlesOneGroup ==
    (/\ sc.state = "returned"
     /\ Len(videos) = 2
     /\ Lower(videos[1].title) = Lower(videos[2].title))
    => /\ ~sc.raised
       /\ Len(sc.duplicates) = 1
       /\ Len(sc.duplicates[1].videos) = 2
       /\ {sc.duplicates[1].videos[k].video_id : k \in 1..2}
              = {videos[1].video_id, videos[2].video_id}

\* C15 witness: two videos whose titles differ in case only, one without
\* an episode number, were returned as one group.
C15_Witness ==
    /\ sc.state = "returned"
    /\ Len(videos) = 2
    /\ videos[1].title # videos[2].title
    /\ Lower(videos[1].title) = Lower(videos[2].title)
    /\ videos[1].episode_number = NoEpisode
    /\ videos[2].episode_number # NoEpisode
    /\ Len(sc.duplicates) = 1

\* Two videos are near duplicates: their titles are equal ignoring case,
\* or both have an episode number and the numbers differ by at most 1.
NearDuplicates(a, b) ==
    \/ Lower(a.title) = Lower(b.title)
    \/ /\ a.episode_number # NoEpisode
       /\ b.episode_number # NoEpisode
       /\ a.episode_number - b.episode_number \in -1..1

\* The maximal runs, of two rows or more, of rows whose neighbours are near
\* duplicates, as pairs of the first and the last position.
MaximalRuns(rows) ==
    {r \in (DOMAIN rows) \X (DOMAIN rows) :
        /\ r[1] < r[2]
        /\ \A i \in r[1]..(r[2] - 1) : NearDuplicates(rows[i], rows[i + 1])
        /\ r[1] = 1 \/ ~NearDuplicates(rows[r[1] - 1], rows[r[1]])
        /\ r[2] = Len(rows) \/ ~NearDuplicates(rows[r[2]], rows[r[2] + 1])}

GroupIds(group) == {group.videos[k].video_id : k \in DOMAIN group.videos}

\* C29: check_duplicate_videos returns a result on every store, videos
\* without an episode number included, and the result holds exactly the
\* maximal runs of two or more title-sorted neighbours that are near
\* duplicates: every group has two videos or more and no video twice, and
\* no two groups share a video.
C29_GroupsAreMaximalRuns ==
    sc.state = "returned" =>
        LET rows == VideosByTitle(videos)
            groups == sc.duplicates
        IN  /\ ~sc.raised
            /\ {groups[g].videos : g \in DOMAIN groups}
                   = {SubSeq(rows, r[1], r[2]) : r \in MaximalRuns(rows)}
            /\ Len(groups) = Cardinality(MaximalRuns(rows))
            /\ \A g \in DOMAIN groups :
                   /\ Len(groups[g].videos) >= 2
                   /\ Cardinality(GroupIds(groups[g])) = Len(groups[g].videos)
            /\ \A g1, g2 \in DOMAIN groups :
                   g1 # g2 => GroupIds(groups[g1]) \cap GroupIds(groups[g2]) = {}

--------------------------------------------------------------------------
(* The CollectionMonitor alone: calls of update_video_processed,           *)
(* record_error and get_collection_summary on a monitor over a small       *)
(* store, and new monitors that load the stats file.                       *)

\* Calls of update_video_processed, record_error and get_daily_report in
\* one behaviour.
MaxCalls == 2

\* The longest period of a daily report, in days.
MaxReportDays == 2

\* The videos the store holds; the other ids resolve to nothing.
MonitorStored == <<"v1", "v3">>

RECURSIVE MonitorStore(_)
MonitorStore(ids) ==
    IF ids = <<>> THEN <<>>
    ELSE add_video(MonitorStore(SubSeq(ids, 1, Len(ids) - 1)),
                   VideoInfo[ids[Len(ids)]], TRUE).videos

\* segment_count of a call.
SegmentCounts == {0, 20}

\* processing_time of a call: the default 0, or a measured time.
MonitorTimes == {0, 1}

MonitorErrorTypes == {"no_transcript", "processing_error"}

NoSummary == [success_rate |-> "none"]

\* A monitor after __init__ on no stats file: no call made yet.
MonitorIdle ==
    [op |-> "none", alive |-> TRUE, fresh |-> TRUE, calls |-> 0, total |-> 0,
     video_id |-> "", resolved |-> FALSE, success |-> FALSE,
     segment_count |-> 0, processing_time |-> 0,
     error_type |-> "", has_id |-> FALSE,
     raised |-> FALSE, outcome |-> "none",
     before |-> _init_stats, blob0 |-> NoFile, summary |-> NoSummary,
     days |-> 0, daily_data |-> <<>>, guest_stats |-> <<>>]

\* The guests table after the search that found the stored videos.
MonitorGuests ==
    {VideoInfo[MonitorStored[i]].guest : i \in DOMAIN MonitorStored} \ {NoGuest}

MonitorInit ==
    /\ videos = MonitorStore(MonitorStored)
    /\ segments = <<>>
    /\ guests = MonitorGuests
    /\ blob = NoFile
    /\ today = 1
    /\ runs = 1
    /\ found_total = 0
    /\ faults = 0
    /\ stats = [p \in Procs |-> _init_stats]
    /\ h = [p \in Procs |-> NoCall]
    /\ w = [p \in Procs |-> Off]
    /\ sc = MonitorIdle

\* monitor.update_video_processed(video_id, success, segment_count,
\* processing_time), with what its _save_stats did to the file.
MonitorUpdate ==
    /\ sc.alive
    /\ sc.total < MaxCalls
    /\ \E id \in VideoIds, success \in BOOLEAN, segment_count \in SegmentCounts,
          processing_time \in MonitorTimes, outcome \in SaveOutcomes :
        LET video == get_video(videos, id)
            u == update_video_processed(stats[1], video, success, segment_count,
                                        processing_time, today)
        IN  /\ ~u.saved => outcome = "written"
            /\ Inject(outcome = "written")
            /\ stats' = [stats EXCEPT ![1] = u.stats]
            /\ blob' = IF u.saved THEN _save_stats(u.stats, blob, outcome) ELSE blob
            /\ sc' = [sc EXCEPT !.op = "update",
                                !.alive = outcome # "killed",
                                !.calls = @ + 1, !.total = @ + 1,
                                !.video_id = id, !.resolved = video # NoVideo,
                                !.success = success,
                                !.segment_count = segment_count,
                                !.processing_time = processing_time,
                                !.error_type = "", !.has_id = FALSE,
                                !.raised = u.raised,
                                !.outcome = IF u.saved THEN outcome ELSE "none",
                                !.before = stats[1], !.blob0 = blob,
                                !.summary = NoSummary]
    /\ UNCHANGED <<videos, segments, guests, today, runs, found_total, w, h>>

\* monitor.record_error(error_type, video_id) or record_error(error_type).
MonitorError ==
    /\ sc.alive
    /\ sc.total < MaxCalls
    /\ \E error_type \in MonitorErrorTypes, has_id \in BOOLEAN,
          outcome \in SaveOutcomes :
        LET r == record_error(stats[1], error_type, has_id, today)
        IN  /\ r.raised => outcome = "written"
            /\ Inject(outcome = "written")
            /\ stats' = [stats EXCEPT ![1] = r.stats]
            /\ blob' = IF r.raised THEN blob ELSE _save_stats(r.stats, blob, outcome)
            /\ sc' = [sc EXCEPT !.op = "error",
                                !.alive = outcome # "killed",
                                !.calls = @ + 1, !.total = @ + 1,
                                !.video_id = "", !.resolved = FALSE,
                                !.success = FALSE, !.segment_count = 0,
                                !.processing_time = 0,
                                !.error_type = error_type, !.has_id = has_id,
                                !.raised = r.raised,
                                !.outcome = IF r.raised THEN "none" ELSE outcome,
                                !.before = stats[1], !.blob0 = blob,
                                !.summary = NoSummary]
    /\ UNCHANGED <<videos, segments, guests, today, runs, found_total, w, h>>

\* monitor.get_collection_summary()
MonitorSummary ==
    /\ sc.alive
    /\ sc.op # "summary"
    /\ sc' = [sc EXCEPT !.op = "summary",
                        !.summary = get_collection_summary(stats[1])]
    /\ UNCHANGED pipelineVars

\* A new process: CollectionMonitor(db) loads the stats file, on the same
\* day or a later one.
MonitorConstruct ==
    /\ runs < MaxRuns
    /\ runs' = runs + 1
    /\ \E day \in {today, today + 1} : day <= MaxDay /\ today' = day
    /\ stats' = [stats EXCEPT ![1] = _load_stats(blob)]
    /\ sc' = [MonitorIdle EXCEPT !.fresh = (blob \in {NoFile, Partial}),
                                 !.total = sc.total,
                                 !.before = _load_stats(blob), !.blob0 = blob]
    /\ UNCHANGED <<videos, segments, guests, blob, found_total, faults, w, h>>

\* monitor.get_daily_report(days)
MonitorDailyReport ==
    /\ sc.alive
    /\ sc.total < MaxCalls
    /\ \E days \in 0..MaxReportDays :
        LET r == get_daily_report(stats[1], days, today)
        IN  /\ stats' = [stats EXCEPT ![1] = r.stats]
            /\ sc' = [sc EXCEPT !.op = "report", !.days = days,
                                !.total = @ + 1,
                                !.raised = r.raised,
                                !.daily_data = r.daily_data,
                                !.before = stats[1], !.blob0 = blob,
                                !.summary = NoSummary]
    /\ UNCHANGED <<videos, segments, guests, blob, today, runs, found_total,
                   faults, w, h>>

\* monitor.get_guest_statistics()
MonitorGuestStatistics ==
    /\ sc.alive
    /\ sc.op # "guests"
    /\ sc' = [sc EXCEPT !.op = "guests",
                        !.guest_stats = get_guest_statistics(stats[1], guests, videos)]
    /\ UNCHANGED pipelineVars

MonitorNext ==
    \/ MonitorUpdate
    \/ MonitorError
    \/ MonitorSummary
    \/ MonitorDailyReport
    \/ MonitorGuestStatistics
    \/ MonitorConstruct

SpecMonitor == MonitorInit /\ [][MonitorNext]_vars

\* C16: get_collection_summary reports "N/A" and average 0 when no video
\* was counted; otherwise the rate is processed/total as a percentage of
\* two decimals, nearest to the exact value, and the average is
\* total_segments / processed_videos, or 0 when nothing was processed; after
\* exactly one success with 20 segments on new stats it reports "100.00%"
\* and the average 20.
C16_SummaryRateAndAverage ==
    sc.op = "summary" =>
        LET st == stats[1]
            s == sc.summary
            avg == s.average_segments_per_video
        IN  /\ st.total_videos = 0 => s.success_rate = "N/A" /\ avg = Zero
            /\ st.total_videos > 0 =>
                   \E c \in {(10000 * st.processed_videos) \div st.total_videos + d :
                                d \in {0, 1}} :
                       /\ 2 * c * st.total_videos
                              <= 2 * 10000 * st.processed_videos + st.total_videos
                       /\ 2 * c * st.total_videos
                              >= 2 * 10000 * st.processed_videos - st.total_videos
                       /\ s.success_rate =
                              Decimal(c \div 100) \o "." \o Decimal((c % 100) \div 10)
                                  \o Decimal(c % 10) \o "%"
            /\ st.processed_videos > 0 =>
                   avg.num * st.processed_videos = st.total_segments * avg.den
            /\ st.processed_videos = 0 => avg = Zero
            /\ (/\ sc.fresh /\ sc.calls = 1 /\ sc.resolved /\ sc.success
                /\ sc.segment_count = 20 /\ ~sc.raised)
               => s.success_rate = "100.00%" /\ avg = [num |-> 20, den |-> 1]

\* A summary after one success with 20 segments on new stats.
C16_Witness ==
    /\ sc.op = "summary"
    /\ sc.fresh /\ sc.calls = 1 /\ sc.resolved /\ sc.success
    /\ sc.segment_count = 20
    /\ sc.summary.success_rate = "100.00%"

\* A field of the bucket of a day in daily_stats; 0 when the day has none.
DayField(st, day, field) ==
    IF HasKey(st.daily_stats, day) THEN st.daily_stats[day][field] ELSE 0

\* The last call was update_video_processed on a video the store holds,
\* and it returned.
UpdatedResolved == sc.op = "update" /\ sc.resolved /\ ~sc.raised

\* C17: update_video_processed with success = False on a video the store
\* holds adds 1 to total_videos and to failed_videos and changes no other
\* counter: processed_videos, total_segments, the counts by year, guest
\* and category, the processing times and today's videos_processed are as
\* before.
C17_FailureCountsOnlyFailed ==
    (UpdatedResolved /\ ~sc.success) =>
        /\ stats[1].total_videos = sc.before.total_videos + 1
        /\ stats[1].failed_videos = sc.before.failed_videos + 1
        /\ stats[1].processed_videos = sc.before.processed_videos
        /\ stats[1].total_segments = sc.before.total_segments
        /\ stats[1].videos_by_year = sc.before.videos_by_year
        /\ stats[1].videos_by_guest = sc.before.videos_by_guest
        /\ stats[1].political_categories = sc.before.political_categories
        /\ stats[1].processing_times = sc.before.processing_times
        /\ DayField(stats[1], today, "videos_processed")
               = DayField(sc.before, today, "videos_processed")

\* C18: update_video_processed does nothing when the store has no video of
\* the id: the stats and the stats file are as before the call, whatever
\* success is.
C18_UnresolvedIsNoOp ==
    (sc.op = "update" /\ ~sc.resolved) =>
        /\ stats[1] = sc.before
        /\ blob = sc.blob0
        /\ ~sc.raised

\* A call with success = False on an id the store lacks, made on stats
\* that already count a video and have a file.
C18_Witness ==
    /\ sc.op = "update" /\ ~sc.resolved /\ ~sc.success
    /\ sc.segment_count = 20 /\ sc.processing_time = 1
    /\ stats[1].total_videos = 1
    /\ blob = Dumped(stats[1])

\* The counter of an error type; 0 when error_counts has no such key.
ErrorCount(st, error_type) ==
    IF HasKey(st.error_counts, error_type) THEN st.error_counts[error_type] ELSE 0

\* The file system failed the _save_stats of the last call.
SaveFailed == sc.outcome \in SaveOutcomes \ {"written"}

\* C19: record_error(error_type, video_id) adds exactly 1 to the counter
\* of error_type, adds 1 to failed_videos if and only if a video id was
\* given, adds 1 to today's errors, leaves total_videos, processed_videos,
\* total_segments and the counts by year, guest and category as they were,
\* and writes the stats file (the file system permitting).
C19_RecordErrorEffect ==
    (sc.op = "error" /\ ~SaveFailed) =>
        /\ ErrorCount(stats[1], sc.error_type)
               = ErrorCount(sc.before, sc.error_type) + 1
        /\ \A t \in MonitorErrorTypes \ {sc.error_type} :
               ErrorCount(stats[1], t) = ErrorCount(sc.before, t)
        /\ stats[1].failed_videos
               = sc.before.failed_videos + (IF sc.has_id THEN 1 ELSE 0)
        /\ DayField(stats[1], today, "errors")
               = DayField(sc.before, today, "errors") + 1
        /\ stats[1].total_videos = sc.before.total_videos
        /\ stats[1].processed_videos = sc.before.processed_videos
        /\ stats[1].total_segments = sc.before.total_segments
        /\ stats[1].videos_by_year = sc.before.videos_by_year
        /\ stats[1].videos_by_guest = sc.before.videos_by_guest
        /\ stats[1].political_categories = sc.before.political_categories
        /\ blob = Dumped(stats[1])

\* The last call changed the stats and returned.
MutationCompleted ==
    /\ sc.op \in {"update", "error"}
    /\ sc.op = "update" => sc.resolved
    /\ sc.alive /\ ~sc.raised

\* C20: the stats file is rewritten atomically after each mutation: after
\* a completed update_video_processed or record_error the file holds the
\* stats of the monitor, and at every moment, a crash in the middle of a
\* rewrite included, the file holds whole stats, those before the mutation
\* or those after it, never an empty or a partial text.
C20_BlobRewrittenAtomically ==
    /\ blob # Partial
    /\ MutationCompleted => blob = Dumped(stats[1])
    /\ sc.op \in {"update", "error"} => blob \in {sc.blob0, Dumped(stats[1])}

\* The last step constructed a monitor and no call was made on it yet.
JustConstructed == sc.op = "none" /\ sc.calls = 0

\* C21: constructing a monitor when the stats file is absent or cannot be
\* parsed does not fail and gives the empty initial stats: the counters of
\* total, processed and failed videos and of segments are 0, the maps by
\* year, guest, category, error type and day are empty and there is no
\* processing time.
C21_AbsentOrCorruptGivesEmpty ==
    (JustConstructed /\ sc.blob0 \in {NoFile, Partial}) =>
        /\ sc.alive
        /\ stats[1] = [dflt |-> TRUE,
                       total_videos |-> 0, processed_videos |-> 0,
                       failed_videos |-> 0, total_segments |-> 0,
                       videos_by_year |-> <<>>, videos_by_guest |-> <<>>,
                       political_categories |-> <<>>, processing_times |-> <<>>,
                       error_counts |-> <<>>, daily_stats |-> <<>>]

\* A monitor constructed on the partial file an earlier process left: its
\* stats count nothing.
C21_Witness ==
    /\ JustConstructed
    /\ runs = 2
    /\ sc.blob0 = Partial
    /\ blob = Partial
    /\ stats[1].total_videos = 0

\* C22: get_daily_report(days) returns days + 1 records, one for each
\* day from today - days to today in ascending order, on a new monitor
\* and on one loaded from the stats file alike; a day without activity has
\* a record of three zeros and a day with activity has its recorded values.
C22_DailyReportCoversPeriod ==
    sc.op = "report" =>
        /\ ~sc.raised
        /\ Len(sc.daily_data) = sc.days + 1
        /\ \A k \in 1..Len(sc.daily_data) :
            LET d == sc.daily_data[k]
            IN  /\ d.date = today - sc.days + k - 1
                /\ d.videos_processed = DayField(sc.before, d.date, "videos_processed")
                /\ d.segments_collected
                       = DayField(sc.before, d.date, "segments_collected")
                /\ d.errors = DayField(sc.before, d.date, "errors")

\* C37: the reports read only: get_collection_summary, get_daily_report
\* and get_guest_statistics leave the stats in memory, the keys of
\* daily_stats included, and the stats file as they were.
C37_ReportsReadOnly ==
    [][sc'.op \in {"summary", "report", "guests"}
          => stats' = stats /\ blob' = blob]_vars

--------------------------------------------------------------------------
(* validate_video_metadata on stores of one video.                        *)

\* The rows validate_video_metadata is called on.
MetaTitles == {"", "JRE #1234"}

MetaChannels == {"", "PowerfulJRE"}

MetaYears == {2016, 2020, 2030}

MetaEpisodes == {NoEpisode, -2, 0, 1, 5}

MetaScores == {NoScore, -2, 0, 5, MaxScore, MaxScore + 1}

MetaIdle == [video_id |-> "", now_year |-> 0, state |-> "idle",
             valid |-> FALSE, issues |-> {}]

\* A call of validate_video_metadata(video_id) begins, on a store of one
\* video.
MetadataInit ==
    /\ segments = <<>>
    /\ guests = {}
    /\ blob = NoFile
    /\ today = 1
    /\ runs = 1
    /\ found_total = 0
    /\ faults = 0
    /\ stats = [p \in Procs |-> _init_stats]
    /\ h = [p \in Procs |-> NoCall]
    /\ w = [p \in Procs |-> Off]
    /\ \E title \in MetaTitles, channel_title \in MetaChannels, year \in MetaYears,
          episode_number \in MetaEpisodes, political_score \in MetaScores :
           videos = <<[video_id |-> "v1", title |-> title,
                       channel_title |-> channel_title, year |-> year,
                       episode_number |-> episode_number,
                       political_score |-> political_score,
                       political_categories |-> <<>>, guest |-> NoGuest,
                       is_processed |-> FALSE]>>
    /\ \E id \in {"v1", "v2"}, now_year \in MetaNowYears :
           sc = [MetaIdle EXCEPT !.video_id = id, !.now_year = now_year,
                                 !.state = "called"]

MetadataReturn ==
    /\ sc.state = "called"
    /\ LET r == validate_video_metadata(videos, sc.video_id, sc.now_year)
       IN  sc' = [sc EXCEPT !.state = "returned", !.valid = r.valid,
                            !.issues = r.issues]
    /\ UNCHANGED pipelineVars

SpecMetadata == MetadataInit /\ [][MetadataReturn]_vars

\* C23: validate_video_metadata flags the episode number whenever one is
\* stored and is not a positive integer, 0 and negative numbers included;
\* it flags the political score exactly when one is stored and lies
\* outside [0, 1]; valid is true exactly when no issue was flagged; a
\* video the store lacks gives valid = false and a not-found issue.
C23_MetadataIssues ==
    sc.state = "returned" =>
        LET video == get_video(videos, sc.video_id)
        IN  IF video = NoVideo
            THEN ~sc.valid /\ sc.issues = {"error"}
            ELSE /\ "episode_number" \in sc.issues
                        <=> (video.episode_number # NoEpisode
                               /\ video.episode_number < 1)
                 /\ "political_score" \in sc.issues
                        <=> (video.political_score # NoScore
                               /\ (video.political_score < 0
                                     \/ video.political_score > MaxScore))
                 /\ sc.valid <=> sc.issues = {}

--------------------------------------------------------------------------
(* process_video from the quality checks on: the video and its segments    *)
(* are in the store, with and without quality issues.                      *)

\* The transcripts stored: of too few or of enough segments, with or
\* without a gap.
GateTranscripts ==
    {QualityTranscript([n |-> n, exists |-> TRUE, gaps |-> gaps,
                        gap_size |-> GapThreshold + 1, short |-> 0,
                        short_text |-> "fiver", repeated |-> 0,
                        reversed |-> FALSE]) :
        n \in {2, MinSegmentCount}, gaps \in {{}, {1}}}

\* The video_data of the call: metadata with and without issues.
GateVideos ==
    {[VideoInfo["v1"] EXCEPT !.channel_title = channel_title, !.year = year,
                             !.episode_number = episode_number,
                             !.political_score = political_score] :
        channel_title \in MetaChannels, year \in {2016, 2019},
        episode_number \in {-2, 1234}, political_score \in {6, MaxScore + 1}}

\* process_video has stored the video and its segments.
GateInit ==
    /\ guests = {}
    /\ blob = NoFile
    /\ today = 1
    /\ runs = 1
    /\ found_total = 0
    /\ faults = 0
    /\ stats = [p \in Procs |-> _init_stats]
    /\ sc = ScoreIdle
    /\ \E video_data \in GateVideos, transcript \in GateTranscripts :
        LET vs == add_video(<<>>, video_data, TRUE).videos
        IN  /\ videos = vs
            /\ segments = add_transcript_segments(vs, <<>>, video_data.video_id,
                                                  transcript, TRUE)
            /\ w = [p \in Procs |->
                       IF p = 1
                       THEN [NewWorker EXCEPT !.pc = "pv_quality",
                                              !.video = video_data,
                                              !.transcript = transcript]
                       ELSE Off]
            /\ h = [p \in Procs |->
                       IF p = 1
                       THEN [NoCall EXCEPT !.calls = 1, !.path = "new",
                                           !.fetched = transcript, !.existed = "no"]
                       ELSE NoCall]

GateNext ==
    \E p \in Procs :
        \/ PV_Quality(p)
        \/ Mark_Txn(p)
        \/ Mark_Final(p)
        \/ PV_Verify(p)
        \/ PV_Stats(p)

SpecGate == GateInit /\ [][GateNext]_vars

\* The quality checks of process p returned in this step.
QualityReturned(p) ==
    /\ w[p].pc = "pv_quality"
    /\ h'[p].quality = "returned"

\* C24: the quality gate is advisory: with the video and its segments in
\* the store, whatever the completeness and the metadata check return,
\* process_video goes on to mark_video_processed, and the checks change
\* nothing of what the rest of the call reads (its locals, the store, the
\* stats and the stats file), so the call returns what it returns when
\* both checks report no issue.
C24_QualityGateIsAdvisory ==
    [][\A p \in Procs :
          QualityReturned(p) =>
              /\ w'[p] = [w[p] EXCEPT !.pc = "mark_txn"]
              /\ UNCHANGED <<videos, segments, guests, stats, blob>>]_vars

\* A call that returned True after both checks had found issues.
C24_Witness ==
    /\ h[1].quality = "returned"
    /\ ~h[1].is_complete /\ ~h[1].is_valid
    /\ w[1].pc = "pv_ret" /\ w[1].ret = "True"
    /\ get_video(videos, w[1].video.video_id).is_processed

--------------------------------------------------------------------------
(* Further properties of the collection runs, checked under Spec.          *)

\* The transcript fetch of process p ends in this step without a transcript.
EndsWithoutTranscript(p) ==
    /\ w[p].pc = "pv_fetch"
    /\ h'[p].path = "no_transcript"

\* The video is not among those process_videos has still to go through.
NotQueued(queue, id) == \A i \in DOMAIN queue : queue[i].video_id # id

\* C25: no transcript is the end of the video within a run: when the fetch
\* gives none (an error that is no rate limit, the rate-limit retries used
\* up, or an empty transcript), process_video records exactly one
\* no_transcript error with the video id and returns False, the store has
\* no video and no segment of the id, and the run makes no further attempt
\* for it.
C25_NoTranscriptIsTerminal ==
    [][\A p \in Procs :
          EndsWithoutTranscript(p) =>
              LET id == w[p].video.video_id
              IN  /\ w'[p].pc = "pv_ret" /\ w'[p].ret = "False"
                  /\ ErrorCount(stats'[p], "no_transcript")
                         = ErrorCount(stats[p], "no_transcript") + 1
                  /\ ErrorTotal(stats'[p]) = ErrorTotal(stats[p]) + 1
                  /\ stats'[p].failed_videos = stats[p].failed_videos + 1
                  /\ get_video(videos', id) = NoVideo
                  /\ get_transcript_segments(segments', id) = <<>>
                  /\ NotQueued(w'[p].queue, id)]_vars

\* C30: get_transcript_with_backoff sleeps between attempts only: the
\* k-th sleep of an invocation lasts 2^(k-1) seconds and another attempt
\* follows it, so that an invocation that has returned after n attempts
\* has slept n - 1 times, and never after its last attempt.
C30_SleepsOnlyBetweenAttempts ==
    \A p \in Procs :
        h[p].calls > 0 =>
            /\ \A k \in DOMAIN h[p].sleeps : h[p].sleeps[k] = 2 ^ (k - 1)
            /\ Len(h[p].sleeps)
                   = IF w[p].pc = "pv_fetch" THEN h[p].calls ELSE h[p].calls - 1

\* mark_video_processed has returned False to process_video.
MarkReportedFailure(p) == w[p].pc = "pv_ret" /\ h[p].path = "mark_failed"

\* C31: mark_video_processed makes three attempts at most, and when it
\* reports failure the videos table, the is_processed flag of the video
\* included, is as it was when the call began.
C31_FailedMarkLeavesStore ==
    \A p \in Procs :
        MarkReportedFailure(p) =>
            /\ h[p].marks <= max_retries
            /\ videos = h[p].videos0

\* process_videos is over: it returned, or an exception left it.
RunOver(p) == w[p].pc \in {"done", "aborted"}

\* The retry loops stay within their bounds.
RetriesBounded(p) ==
    /\ h[p].calls <= max_attempts
    /\ w[p].attempt <= max_attempts
    /\ h[p].marks <= max_retries
    /\ w[p].mark_attempt < max_retries

\* process_video is entered for the first video not yet handled, which is
\* then handled.
TakesNextVideo(p) ==
    (w[p].pc = "loop" /\ w'[p].pc = "pv_start")
        => /\ w[p].queue # <<>>
           /\ w'[p].video = Head(w[p].queue)
           /\ w'[p].queue = Tail(w[p].queue)
           /\ w'[p].found = w[p].found

\* The videos not yet handled are the last ones of the discovery result.
IsSuffix(queue, found) ==
    /\ Len(queue) <= Len(found)
    /\ queue = SubSeq(found, Len(found) - Len(queue) + 1, Len(found))

\* process_video has returned with one of the outcomes of a video.
TerminalOutcomes ==
    {"skip", "no_transcript", "database_error", "mark_failed", "verify_failed",
     "stats_failed", "processed", "raise", "quality_raise"}

\* C32: process_videos terminates whatever the platform and the store do:
\* the retry loops make three attempts at most, every discovered video is
\* passed to process_video once, in discovery order, and ends in a terminal
\* outcome, and the summary and the duplicate check come when all
\* discovered videos were handled, which always happens.
C32_EveryVideoHandledOnce ==
    /\ [](\A p \in Procs :
            /\ RetriesBounded(p)
            /\ w[p].pc # "off" => IsSuffix(w[p].queue, w[p].found)
            /\ w[p].pc = "pv_ret" => h[p].path \in TerminalOutcomes
            /\ w[p].summary => w[p].queue = <<>>
            /\ RunOver(p) => w[p].queue = <<>>)
    /\ [][\A p \in Procs : TakesNextVideo(p)]_vars
    /\ \A p \in Procs :
           (w[p].pc \in {"search", "loop"}) ~> (w[p].pc = "done")

\* C33: a failed process_video leaves the video unprocessed, to be taken up
\* again: when it returns False the store holds no processed video of the
\* id, and a later call that finds the video unprocessed and whose fetch and
\* storage calls succeed ends with the video processed and exactly the
\* segments of the new transcript stored.
C33_FailedVideoIsRetried ==
    \A p \in Procs :
        LET id == w[p].video.video_id
        IN  /\ (w[p].pc = "pv_ret" /\ w[p].ret = "False") => ~StoredProcessed(id)
            /\ (/\ w[p].pc = "pv_ret"
                /\ h[p].path = "processed"
                /\ h[p].existed = "unprocessed"
                /\ ~h[p].segments_lost)
               => /\ StoredProcessed(id)
                  /\ StoredTexts(id) = TranscriptTexts(h[p].fetched)
                  /\ Len(get_transcript_segments(segments, id)) = Len(h[p].fetched)

\* A process_video invocation is under way or has just returned.
InInvocation(p) ==
    w[p].pc \in {"pv_start", "pv_delete", "pv_fetch", "pv_add_video",
                 "pv_add_segments", "pv_quality", "mark_txn", "mark_final",
                 "pv_verify", "pv_stats", "pv_ret"}

\* C35: one process_video invocation adds one to failed_videos at most, and
\* nothing when it returns True: no invocation counts its video as failed
\* and as processed.
C35_FailedCountedOnce ==
    \A p \in Procs :
        InInvocation(p) =>
            /\ stats[p].failed_videos <= h[p].failed0 + 1
            /\ (w[p].pc = "pv_ret" /\ w[p].ret = "True")
                   => stats[p].failed_videos = h[p].failed0

\* The step is the return of process_video with this value.
Returns(p, value) ==
    InInvocation(p) /\ w[p].pc # "pv_ret" /\ w'[p].pc = "pv_ret" /\ w'[p].ret = value

\* The step counted one video, as processed and with nothing else in the
\* counters of videos.
CountsProcessed(p) ==
    /\ stats'[p].total_videos = stats[p].total_videos + 1
    /\ stats'[p].processed_videos = stats[p].processed_videos + 1
    /\ stats'[p].failed_videos = stats[p].failed_videos

\* C36: update_video_processed is called with success = True only, once
\* in each process_video invocation that runs the whole pipeline and returns
\* True, and never for a failed or a skipped video: a step of an invocation
\* changes total_videos only when it returns True after the pipeline, and
\* it counts the video once, as processed; so total_videos =
\* processed_videos in every state of a run that began with an empty
\* monitor.
C36_OnlySuccessesAreCounted ==
    /\ [](\A p \in Procs : stats[p].total_videos = stats[p].processed_videos)
    /\ [][\A p \in Procs :
            /\ (InInvocation(p) /\ stats'[p].total_videos # stats[p].total_videos)
                   => /\ w[p].pc = "pv_stats"
                      /\ Returns(p, "True")
                      /\ CountsProcessed(p)
            /\ (Returns(p, "True") /\ h'[p].path # "skip") => CountsProcessed(p)
            /\ (Returns(p, "True") /\ h'[p].path = "skip")
                   => stats'[p] = stats[p]]_vars

--------------------------------------------------------------------------
(* search_political_videos over several keywords, with the requests for    *)
(* video details counted.                                                  *)

\* Keywords of a search.
MaxSearchKeywords == 2

\* The items the searches of the run returned so far, by video id.
RECURSIVE ReturnedById(_, _)
ReturnedById(items, counts) ==
    IF items = <<>> THEN counts
    ELSE ReturnedById(Tail(items), [counts EXCEPT ![Head(items)] = @ + 1])

DiscoveryIdle == [details |-> NoDetails, returned |-> NoDetails]

DiscoveryInit ==
    /\ PipelineInit
    /\ w = [p \in Procs |-> IF p = 1 THEN NewWorker ELSE Off]
    /\ sc = DiscoveryIdle

\* The search of one keyword and the loop over its items.
DiscoverKeyword ==
    \E http_ok \in BOOLEAN, items \in SearchResponses,
       outcome \in [VideoIds -> DetailOutcomes] :
        /\ SearchStep(1, MaxSearchKeywords, sc.details, http_ok, items, outcome)
        /\ sc' = [sc EXCEPT !.details =
                     SearchResult(1, sc.details, http_ok, items, outcome).details,
                            !.returned = ReturnedById(items, @)]

SpecSearch == DiscoveryInit /\ [][DiscoverKeyword]_vars

\* The ids of a list of videos are all different.
DistinctIds(list) ==
    \A i, j \in DOMAIN list : list[i].video_id = list[j].video_id => i = j

\* C26: discovery deduplicates by video id within a run: over all the
\* keywords searched the list of search_political_videos holds each video
\* id at most once and the details of an id are requested at most once, so
\* the list process_videos goes through has each id at most once.
C26_DiscoveryDeduplicates ==
    /\ DistinctIds(w[1].found)
    /\ DistinctIds(w[1].queue)
    /\ \A id \in VideoIds : sc.details[id] <= 1

\* Two keywords were searched, a relevant video came back under both, and
\* the list handed to process_videos holds it once.
C26_Witness ==
    /\ w[1].pc = "loop"
    /\ w[1].kw = 2
    /\ \E i \in DOMAIN w[1].queue :
           /\ sc.returned[w[1].queue[i].video_id] >= 2
           /\ sc.details[w[1].queue[i].video_id] = 1
    /\ Len(w[1].queue) = 2

--------------------------------------------------------------------------
(* The DatabaseManager alone: add_video, add_transcript_segments,          *)
(* delete_video and mark_video_processed called in any order, each with    *)
(* or without a storage error.                                             *)

\* Calls of the store's operations in one behaviour.
MaxStoreOps == 5

StoreTranscripts == {TranscriptA, TranscriptB}

StoreIdle ==
    [n |-> 0, op |-> "none", id |-> "", storage_ok |-> TRUE, ok |-> FALSE,
     transcript |-> EmptyTranscript, videos0 |-> <<>>, segments0 |-> <<>>]

StoreInit ==
    /\ PipelineInit
    /\ w = [p \in Procs |-> Off]
    /\ sc = StoreIdle

\* The call that is made, as sc records it.
StoreCall(op, id, storage_ok, ok, transcript) ==
    [n |-> sc.n + 1, op |-> op, id |-> id, storage_ok |-> storage_ok, ok |-> ok,
     transcript |-> transcript, videos0 |-> videos, segments0 |-> segments]

StoreAddVideo ==
    /\ sc.n < MaxStoreOps
    /\ \E id \in VideoIds, storage_ok \in BOOLEAN :
        LET r == add_video(videos, VideoInfo[id], storage_ok)
        IN  /\ videos' = r.videos
            /\ sc' = StoreCall("add_video", id, storage_ok, r.ok, EmptyTranscript)
    /\ UNCHANGED <<segments, guests, blob, today, runs, found_total, faults,
                   stats, w, h>>

StoreAddSegments ==
    /\ sc.n < MaxStoreOps
    /\ \E id \in VideoIds, storage_ok \in BOOLEAN, transcript \in StoreTranscripts :
        /\ segments' = add_transcript_segments(videos, segments, id, transcript,
                                               storage_ok)
        /\ sc' = StoreCall("add_transcript_segments", id, storage_ok, TRUE, transcript)
    /\ UNCHANGED <<videos, guests, blob, today, runs, found_total, faults,
                   stats, w, h>>

StoreDelete ==
    /\ sc.n < MaxStoreOps
    /\ \E id \in VideoIds, storage_ok \in BOOLEAN :
        LET r == delete_video(videos, segments, id, storage_ok)
        IN  /\ videos' = r.videos
            /\ segments' = r.segments
            /\ sc' = StoreCall("delete_video", id, storage_ok,
                               r.videos # videos, EmptyTranscript)
    /\ UNCHANGED <<guests, blob, today, runs, found_total, faults, stats, w, h>>

StoreMark ==
    /\ sc.n < MaxStoreOps
    /\ \E id \in VideoIds, committed \in BOOLEAN :
        LET r == mark_video_processed(videos, id, committed)
        IN  /\ videos' = r.videos
            /\ sc' = StoreCall("mark_video_processed", id, committed, r.ok,
                               EmptyTranscript)
    /\ UNCHANGED <<segments, guests, blob, today, runs, found_total, faults,
                   stats, w, h>>

StoreNext == StoreAddVideo \/ StoreAddSegments \/ StoreDelete \/ StoreMark

SpecStore == StoreInit /\ [][StoreNext]_vars

\* C27: after any sequence of add_video, delete_video and
\* mark_video_processed calls (process_video changes the store through
\* these and add_transcript_segments only) the store holds at most one
\* video of a video id; add_video for an id the store holds returns no
\* video and leaves the row and its segments as they were.
C27_OneVideoPerId ==
    /\ \A id \in VideoIds : Cardinality(RowIndexes(videos, id)) <= 1
    /\ (sc.op = "add_video" /\ get_video(sc.videos0, sc.id) # NoVideo) =>
           /\ ~sc.ok
           /\ videos = sc.videos0
           /\ segments = sc.segments0

\* add_video, with no storage error, for an id whose video is in the store
\* with segments.
C27_Witness ==
    /\ sc.op = "add_video" /\ sc.storage_ok
    /\ get_video(sc.videos0, sc.id) # NoVideo
    /\ get_transcript_segments(segments, sc.id) # <<>>

\* The rows of a table that belong to other videos than id.
OtherRows(rows, id) == SelectSeq(rows, LAMBDA r : r.video_id # id)

\* C28: in every state of the store every segment belongs to a video the
\* store holds: delete_video(id) removes the video and all segments of the
\* id and no row of another video, and add_transcript_segments stores all
\* the segments of the call or none.
C28_SegmentsBelongToVideos ==
    /\ \A i \in DOMAIN segments : get_video(videos, segments[i].video_id) # NoVideo
    /\ (sc.op = "delete_video" /\ sc.ok) =>
           /\ get_video(videos, sc.id) = NoVideo
           /\ get_transcript_segments(segments, sc.id) = <<>>
           /\ OtherRows(videos, sc.id) = OtherRows(sc.videos0, sc.id)
           /\ OtherRows(segments, sc.id) = OtherRows(sc.segments0, sc.id)
    /\ (sc.op = "delete_video" /\ ~sc.ok) =>
           videos = sc.videos0 /\ segments = sc.segments0
    /\ sc.op = "add_transcript_segments" =>
           \/ segments = sc.segments0
           \/ /\ Len(segments) = Len(sc.segments0) + Len(sc.transcript)
              /\ SubSeq(segments, 1, Len(sc.segments0)) = sc.segments0
              /\ \A i \in DOMAIN sc.transcript :
                     /\ segments[Len(sc.segments0) + i].text = sc.transcript[i].text
                     /\ segments[Len(sc.segments0) + i].video_id = sc.id

\* delete_video removed a video that had segments while another video
\* with segments stayed.
C28_Witness ==
    /\ sc.op = "delete_video" /\ sc.ok
    /\ get_transcript_segments(sc.segments0, sc.id) # <<>>
    /\ segments # <<>>

--------------------------------------------------------------------------
(* Two monitors given the same calls: monitor 1 is replaced at some point  *)
(* by a new CollectionMonitor that loads the stats file, monitor 2 keeps   *)
(* its stats in memory from the start.                                     *)

ReloadIdle == [calls |-> 0, raised |-> FALSE, reloaded |-> FALSE, op |-> "none"]

ReloadInit ==
    /\ videos = MonitorStore(MonitorStored)
    /\ segments = <<>>
    /\ guests = {}
    /\ blob = NoFile
    /\ today = 1
    /\ runs = 1
    /\ found_total = 0
    /\ faults = 0
    /\ stats = [p \in Procs |-> _init_stats]
    /\ h = [p \in Procs |-> NoCall]
    /\ w = [p \in Procs |-> Off]
    /\ sc = ReloadIdle

\* update_video_processed on both monitors; monitor 1 saves the file.
ReloadUpdate ==
    /\ sc.calls < MaxCalls
    /\ \E id \in VideoIds, success \in BOOLEAN, segment_count \in SegmentCounts,
          processing_time \in MonitorTimes :
        LET video == get_video(videos, id)
            u == update_video_processed(stats[1], video, success, segment_count,
                                        processing_time, today)
            v == update_video_processed(stats[2], video, success, segment_count,
                                        processing_time, today)
        IN  /\ stats' = [stats EXCEPT ![1] = u.stats, ![2] = v.stats]
            /\ blob' = IF u.saved THEN _save_stats(u.stats, blob, "written") ELSE blob
            /\ sc' = [sc EXCEPT !.calls = @ + 1, !.op = "update",
                                !.raised = @ \/ u.raised \/ v.raised]
    /\ UNCHANGED <<videos, segments, guests, today, runs, found_total, faults, w, h>>

\* record_error on both monitors; monitor 1 saves the file.
ReloadError ==
    /\ sc.calls < MaxCalls
    /\ \E error_type \in MonitorErrorTypes, has_id \in BOOLEAN :
        LET r == record_error(stats[1], error_type, has_id, today)
            q == record_error(stats[2], error_type, has_id, today)
        IN  /\ stats' = [stats EXCEPT ![1] = r.stats, ![2] = q.stats]
            /\ blob' = IF r.raised THEN blob ELSE _save_stats(r.stats, blob, "written")
            /\ sc' = [sc EXCEPT !.calls = @ + 1, !.op = "error",
                                !.raised = @ \/ r.raised \/ q.raised]
    /\ UNCHANGED <<videos, segments, guests, today, runs, found_total, faults, w, h>>

\* Monitor 1 is built anew from the file, on the same day or a later one.
Reload ==
    /\ runs < MaxRuns
    /\ runs' = runs + 1
    /\ \E day \in {today, today + 1} : day <= MaxDay /\ today' = day
    /\ stats' = [stats EXCEPT ![1] = _load_stats(blob)]
    /\ sc' = [sc EXCEPT !.reloaded = TRUE, !.op = "reload"]
    /\ UNCHANGED <<videos, segments, guests, blob, found_total, faults, w, h>>

ReloadNext == ReloadUpdate \/ ReloadError \/ Reload

SpecReload == ReloadInit /\ [][ReloadNext]_vars

\* The counters, maps and lists of the stats, whatever the kind of the maps.
Counters(st) == [st EXCEPT !.dflt = TRUE]

\* C34: a monitor that reloads its saved stats behaves as one that kept them
\* in memory: whatever update_video_processed and record_error calls are
\* made before and after the reload, none raises, and the counters equal
\* those of the monitor that was never reloaded, also when a call after
\* the reload meets an error type, year, guest, category or day that the
\* loaded stats have no key for.
C34_ReloadedMonitorAgrees ==
    /\ ~sc.raised
    /\ Counters(stats[1]) = Counters(stats[2])

--------------------------------------------------------------------------
(* Two processes are in process_video for the same video against the one   *)
(* store, their storage calls interleaved in any order.                    *)

\* The video both processes found.
PairVideo == VideoInfo["v1"]

\* Both processes enter process_video; the store is empty, or holds the
\* video unprocessed from an earlier run.
PairInit ==
    /\ guests = {}
    /\ blob = NoFile
    /\ today = 1
    /\ runs = 1
    /\ found_total = 0
    /\ faults = 0
    /\ stats = [p \in Procs |-> _init_stats]
    /\ sc = ScoreIdle
    /\ segments = <<>>
    /\ \E stored \in BOOLEAN :
           videos = IF stored THEN add_video(<<>>, PairVideo, TRUE).videos ELSE <<>>
    /\ w = [p \in Procs |-> [NewWorker EXCEPT !.pc = "pv_start",
                                             !.video = PairVideo,
                                             !.found = <<PairVideo>>]]
    /\ h = [p \in Procs |-> NoCall]

PairNext ==
    \E p \in Procs :
        \/ PV_Start(p)
        \/ PV_Delete(p)
        \/ PV_Fetch(p)
        \/ PV_AddVideo(p)
        \/ PV_AddSegments(p)
        \/ PV_Quality(p)
        \/ Mark_Txn(p)
        \/ Mark_Final(p)
        \/ PV_Verify(p)
        \/ PV_Stats(p)

SpecPair == PairInit /\ [][PairNext]_vars

\* The segments stored for the id are those of one transcript, or none.
OneTranscriptStored(id) ==
    \E t \in Transcripts : StoredTexts(id) = TranscriptTexts(t)

\* C38: when two processes interleave process_video on one video id, the
\* store never holds more segments of the id than one transcript has, nor
\* segments of two transcripts, and a video that one process marked
\* processed is never deleted by the other.
C38_NoDoubledSegmentsNoLostMark ==
    /\ [](OneTranscriptStored(PairVideo.video_id))
    /\ [][StoredProcessed(PairVideo.video_id)
            => get_video(videos', PairVideo.video_id) # NoVideo]_vars

==========================================================================
